---- MODULE Spec2Model ----
(***************************************************************************)
(* Model of pyimorg's retrying mapper (pyimorg/func.py, map_with_retry)    *)
(* and of the batched filesystem operations with their own retry loop      *)
(* (pyimorg/filesystem.py, mkdir_p_parallel and cp_p_parallel), and of the *)
(* workflows diff and groupby that are built on them.                      *)
(***************************************************************************)
EXTENDS Integers, Sequences, FiniteSets, TLC

\* ------------------------------------------------------------------ bounds
MaxLen == 3        \* longest input batch
MaxCount == 3      \* largest `count` of a retry policy
MaxJobs == 2       \* largest worker count n_jobs
MaxPaths == 2      \* most items of a filesystem batch
MaxRetry == 1      \* largest explicit retry_count of a filesystem batch
MaxFiles == 3      \* most files of the source trees of a workflow

VARIABLES
    on,            \* map_with_retry: exception classes that are retried
    count,         \* map_with_retry: total number of attempts
    delay_secs,    \* map_with_retry: sleep between two rounds
    n_jobs,        \* width of the worker pool of the wrapped mapper
    arr,           \* the batch handed to wrapped_mapper
    pc,            \* position of the caller
    c,             \* loop variable of `for c in range(1, count + 1)`
    jobs,          \* wrapped_mapper: list of _NewJob/_CompletedJob/_FailedJob
    failed_jobs,   \* wrapped_mapper: failed jobs of the last finished round
    input_idxs,    \* wrapped_mapper: indices dispatched in this round
    futures,       \* the pool: one slot per dispatched argument
    outcome,       \* how the call ended
    calls,         \* history: number of invocations of fn per item
    fails,         \* history: errors of a class in `on` raised per item
    done_round,    \* history: round in which the item completed, 0 if none
    slept,         \* history: the durations passed to time.sleep
    mapper_calls,  \* history: number of invocations of the wrapped mapper
    unc_round,     \* history: round in which a non-retried error was raised
    op,            \* filesystem batch: "mkdir" or "cp"
    retry_count,   \* filesystem batch: parameter retry_count
    fs_n_jobs,     \* filesystem batch: parameter n_jobs
    path_multi,    \* filesystem batch: path_multi / src_dst_multi
    fs_i,          \* filesystem batch: loop variable i of range(retry_count + 1)
    fs_pc,         \* filesystem batch: position of the caller
    fs_futures,    \* filesystem batch: the pool of map_mt_with_tqdm
    fs_outcome,    \* filesystem batch: how the call ended
    attempts,      \* history: number of attempts per item
    succeeded,     \* history: the items whose operation succeeded
    fs_slept,      \* history: the durations passed to time.sleep
    other_round,   \* history: loop index at which a non-OSError was raised
    fail_rounds,   \* history: loop indices at which the item raised OSError
    disk,          \* the directories and files the operations have written
    wf,            \* workflow: "diff" or "groupby"
    threads,       \* workflow: parameter threads
    group,         \* groupby: parameter group
    tree1,         \* the files below src1 (diff) or src (groupby)
    tree2,         \* the files below src2
    disk0,         \* what is at dst when the workflow starts
    wf_pc,         \* workflow: position of the caller
    cat,           \* workflow: the category that is being materialized
    src1_img_paths,
    src1_img_hashes,
    src2_img_paths,
    src2_img_hashes,
    src_img_paths,
    src_img_captured_timestamps,
    wf_outcome,    \* workflow: how the call ended
    log,           \* history: the work the workflow has asked for
    mk_dirs,       \* mkdir_p: the directories that exist
    mk_n_jobs,     \* mkdir_p: width of the pool of the round
    mk_paths,      \* mkdir_p: the paths of the round, one per request
    mk_stack,      \* mkdir_p: per request, the calls of Path.mkdir in progress
    mk_state,      \* mkdir_p: per request, pending, running, returned, raised
    mk_errs        \* history: per request, the errors os.mkdir answered with

mvars == <<on, count, delay_secs, n_jobs, arr, pc, c, jobs, failed_jobs,
           input_idxs, futures, outcome, calls, fails, done_round, slept,
           mapper_calls, unc_round>>

fvars == <<op, retry_count, fs_n_jobs, path_multi, fs_i, fs_pc, fs_futures,
           fs_outcome, attempts, succeeded, fs_slept, other_round,
           fail_rounds, disk>>

\* the batch without the disk
fbatch == <<op, retry_count, fs_n_jobs, path_multi, fs_i, fs_pc, fs_futures,
            fs_outcome, attempts, succeeded, fs_slept, other_round,
            fail_rounds>>

winputs == <<wf, threads, group, tree1, tree2, disk0>>

wlocals == <<src1_img_paths, src1_img_hashes, src2_img_paths,
             src2_img_hashes, src_img_paths, src_img_captured_timestamps>>

wvars == <<winputs, wlocals, wf_pc, cat, wf_outcome, log>>

kvars == <<mk_dirs, mk_n_jobs, mk_paths, mk_stack, mk_state, mk_errs>>

vars == <<mvars, fvars, wvars, kvars>>

\* ------------------------------------------------------------- data model
ExcTypes == {"OSError", "KeyError"}

Args == {1, 2}

SeqsUpTo(S, n) == UNION {[1 .. k -> S] : k \in 0 .. n}

\* the mapping function handed to the mapper; injective and not the identity
fn(x) == x + 10

NewJob(a) == [status |-> "new", arg |-> a]

CompletedJob(r) == [status |-> "done", result |-> r]

FailedJob(a, e) == [status |-> "failed", arg |-> a, exc |-> e]

\* an exception instance: its class and the round in which it was raised
Exc(t, r) == [type |-> t, round |-> r]

Range(s) == {s[k] : k \in DOMAIN s}

\* fn returned without raising
NoExc == [type |-> "none", round |-> 0]

\* -------------------------------------------------------- map_with_retry
\* count = 0 let through
PolicyRejected_ZeroCount(cnt, delay) == cnt < 0 \/ delay < 0

\* the checks of count and delay_secs
PolicyRejected(cnt, delay) == cnt < 1 \/ delay < 0

\* `except Exception` in place of `except on`
wrapped_fn_CatchAll(val, raised) ==
    IF raised.type = "none"
    THEN [kind |-> "value", value |-> CompletedJob(fn(val))]
    ELSE [kind |-> "value", value |-> FailedJob(val, raised)]

\* wrapped_fn: what one invocation leaves in its future. `raised` is the
\* exception fn raised, or NoExc when fn returned.
wrapped_fn(val, raised) ==
    IF raised.type = "none"
    THEN [kind |-> "value", value |-> CompletedJob(fn(val))]
    ELSE IF raised.type \in on
         THEN [kind |-> "value", value |-> FailedJob(val, raised)]
         ELSE [kind |-> "exc", exc |-> raised]

\* inputs = [(i, job) for i, job in enumerate(jobs) if job.status != 'done']
\* with job replaced by job.arg, as input_args takes it
RECURSIVE InputsFrom(_, _)
InputsFrom(js, i) ==
    IF i > Len(js) THEN <<>>
    ELSE IF js[i].status # "done"
         THEN <<[idx |-> i, arg |-> js[i].arg]>> \o InputsFrom(js, i + 1)
         ELSE InputsFrom(js, i + 1)

\* every item again in every round, completed or not
Inputs_All(js) == [i \in DOMAIN js |-> [idx |-> i, arg |-> arr[i]]]

\* the argument taken at the position in inputs, not at the original index
Inputs_ArgByPosition(js) ==
    LET ins == InputsFrom(js, 1)
    IN [k \in DOMAIN ins |-> [idx |-> ins[k].idx, arg |-> arr[k]]]

Inputs(js) == InputsFrom(js, 1)

\* for i, job in zip(input_idxs, mapper(...)): jobs[i] = job
RECURSIVE WriteBackFrom(_, _, _, _)
WriteBackFrom(js, idxs, res, k) ==
    IF k > Len(idxs) \/ k > Len(res) THEN js
    ELSE WriteBackFrom([js EXCEPT ![idxs[k]] = res[k]], idxs, res, k + 1)

\* a job that failed before keeps its first failure
WriteBack_KeepFirstFailure(js, idxs, res) ==
    LET new == WriteBackFrom(js, idxs, res, 1)
    IN [i \in DOMAIN js |->
          IF js[i].status = "failed" /\ new[i].status = "failed"
          THEN js[i] ELSE new[i]]

WriteBack(js, idxs, res) == WriteBackFrom(js, idxs, res, 1)

IsFailed(job) == job.status = "failed"

IsDone(job) == job.status = "done"

\* failed_jobs = [job for job in jobs if job.status == 'failed']
FailedJobs(js) == SelectSeq(js, IsFailed)

\* results = [job.result for job in jobs if job.status == 'done']
Results(js) ==
    LET d == SelectSeq(js, IsDone) IN [k \in DOMAIN d |-> d[k].result]

\* range(1, count)
InRange_Short(r, cnt) == r >= 1 /\ r < cnt

\* range(1, count + 2)
InRange_Long(r, cnt) == r >= 1 /\ r < cnt + 2

\* for c in range(1, count + 1)
InRange(r, cnt) == r >= 1 /\ r < cnt + 1

\* the sleep outside the test of c
SleepsAfter_Always(r, cnt) == TRUE

\* if c < count: ... time.sleep(delay_secs)
SleepsAfter(r, cnt) == r < cnt

\* ------------------------------------------------------------------ state
FsIdle ==
    /\ op = "mkdir"
    /\ retry_count = 0
    /\ fs_n_jobs = 1
    /\ path_multi = <<>>
    /\ fs_i = 0
    /\ fs_pc = "off"
    /\ fs_futures = <<>>
    /\ fs_outcome = [kind |-> "none"]
    /\ attempts = <<>>
    /\ succeeded = {}
    /\ fs_slept = <<>>
    /\ other_round = -1
    /\ fail_rounds = <<>>
    /\ disk = {}

WfIdle ==
    /\ wf = "none"
    /\ threads = 1
    /\ group = "month"
    /\ tree1 = <<>>
    /\ tree2 = <<>>
    /\ disk0 = {}
    /\ wf_pc = "off"
    /\ cat = "none"
    /\ src1_img_paths = <<>>
    /\ src1_img_hashes = <<>>
    /\ src2_img_paths = <<>>
    /\ src2_img_hashes = <<>>
    /\ src_img_paths = <<>>
    /\ src_img_captured_timestamps = <<>>
    /\ wf_outcome = [kind |-> "none", why |-> ""]
    /\ log = <<>>

MkIdle ==
    /\ mk_dirs = {}
    /\ mk_n_jobs = 1
    /\ mk_paths = <<>>
    /\ mk_stack = <<>>
    /\ mk_state = <<>>
    /\ mk_errs = <<>>

Init ==
    /\ FsIdle
    /\ WfIdle
    /\ MkIdle
    /\ on \in {{"OSError"}, {}}
    /\ count \in 0 .. MaxCount
    /\ delay_secs \in {-1, 0, 1}
    /\ n_jobs \in 1 .. MaxJobs
    /\ arr \in SeqsUpTo(Args, MaxLen)
    /\ pc = "start"
    /\ c = 0
    /\ jobs = <<>>
    /\ failed_jobs = <<>>
    /\ input_idxs = <<>>
    /\ futures = <<>>
    /\ outcome = [kind |-> "none"]
    /\ calls = [i \in DOMAIN arr |-> 0]
    /\ fails = [i \in DOMAIN arr |-> 0]
    /\ done_round = [i \in DOMAIN arr |-> 0]
    /\ slept = <<>>
    /\ mapper_calls = 0
    /\ unc_round = 0

\* map_with_retry(on, count=..., delay_secs=...)(mapper)
MapWithRetry ==
    /\ pc = "start"
    /\ IF PolicyRejected(count, delay_secs)
       THEN /\ pc' = "done"
            /\ outcome' = [kind |-> "ValueError"]
       ELSE /\ pc' = "decorated"
            /\ UNCHANGED outcome
    /\ UNCHANGED <<on, count, delay_secs, n_jobs, arr, c, jobs, failed_jobs,
                   input_idxs, futures, calls, fails, done_round, slept,
                   mapper_calls, unc_round>>

\* wrapped_mapper(arr, fn), up to the loop
Call ==
    /\ pc = "decorated"
    /\ jobs' = [i \in DOMAIN arr |-> NewJob(arr[i])]
    /\ failed_jobs' = <<>>
    /\ c' = 1
    /\ pc' = "loop"
    /\ UNCHANGED <<on, count, delay_secs, n_jobs, arr, input_idxs, futures,
                   outcome, calls, fails, done_round, slept, mapper_calls,
                   unc_round>>

\* the mapper is skipped when nothing is left to dispatch
Dispatch_SkipEmpty ==
    /\ pc = "loop"
    /\ InRange(c, count)
    /\ input_idxs' = [k \in DOMAIN Inputs(jobs) |-> Inputs(jobs)[k].idx]
    /\ futures' = [k \in DOMAIN Inputs(jobs) |->
                     [kind |-> "pending", arg |-> Inputs(jobs)[k].arg]]
    /\ mapper_calls' = IF Len(Inputs(jobs)) = 0
                       THEN mapper_calls ELSE mapper_calls + 1
    /\ pc' = "map"
    /\ UNCHANGED <<on, count, delay_secs, n_jobs, arr, c, jobs, failed_jobs,
                   outcome, calls, fails, done_round, slept, unc_round>>

\* loop head with a round left: select the inputs and call the mapper
Dispatch ==
    /\ pc = "loop"
    /\ InRange(c, count)
    /\ input_idxs' = [k \in DOMAIN Inputs(jobs) |-> Inputs(jobs)[k].idx]
    /\ futures' = [k \in DOMAIN Inputs(jobs) |->
                     [kind |-> "pending", arg |-> Inputs(jobs)[k].arg]]
    /\ mapper_calls' = mapper_calls + 1
    /\ pc' = "map"
    /\ UNCHANGED <<on, count, delay_secs, n_jobs, arr, c, jobs, failed_jobs,
                   outcome, calls, fails, done_round, slept, unc_round>>

Running == {k \in DOMAIN futures : futures[k].kind = "running"}

\* a free worker of the pool takes an argument and invokes wrapped_fn
WorkerStart(k) ==
    /\ pc = "map"
    /\ futures[k].kind = "pending"
    /\ Cardinality(Running) < n_jobs
    /\ futures' = [futures EXCEPT ![k].kind = "running"]
    /\ calls' = [calls EXCEPT ![input_idxs[k]] = @ + 1]
    /\ UNCHANGED <<on, count, delay_secs, n_jobs, arr, pc, c, jobs,
                   failed_jobs, input_idxs, outcome, fails, done_round,
                   slept, mapper_calls, unc_round>>

\* the invocation ends: fn returned, or raised an exception of some class
WorkerFinish(k, raised) ==
    /\ pc = "map"
    /\ futures[k].kind = "running"
    /\ LET res == wrapped_fn(futures[k].arg, raised)
           i == input_idxs[k]
       IN /\ futures' = [futures EXCEPT ![k] = res]
          /\ fails' = IF raised.type \in on
                      THEN [fails EXCEPT ![i] = @ + 1] ELSE fails
          /\ done_round' = IF raised.type = "none"
                           THEN [done_round EXCEPT ![i] = c] ELSE done_round
          /\ unc_round' = IF raised.type \notin on \cup {"none"}
                          THEN c ELSE unc_round
    /\ UNCHANGED <<on, count, delay_secs, n_jobs, arr, pc, c, jobs,
                   failed_jobs, input_idxs, outcome, calls, slept,
                   mapper_calls>>

AllCollected == \A k \in DOMAIN futures : futures[k].kind = "value"

\* a mapper that returns one result less than it was given arguments
MapperResults_DropLast ==
    [k \in 1 .. (Len(futures) - 1) |-> futures[k].value]

MapperResults == [k \in DOMAIN futures |-> futures[k].value]

\* streaming: the round is decided on the jobs collected so far, while
\* other arguments of the round are still waiting for a worker
RoundEnd_Early ==
    /\ pc = "map"
    /\ \A k \in DOMAIN futures : futures[k].kind \in {"value", "pending"}
    /\ LET got(i) == {k \in DOMAIN futures :
                        input_idxs[k] = i /\ futures[k].kind = "value"}
           js == [i \in DOMAIN jobs |->
                    IF got(i) = {} THEN jobs[i]
                    ELSE futures[CHOOSE k \in got(i) : TRUE].value]
           failed == FailedJobs(js)
       IN /\ jobs' = js
          /\ failed_jobs' = failed
          /\ IF Len(failed) = 0
             THEN /\ pc' = "done"
                  /\ outcome' = IF Len(Results(js)) = Len(arr)
                                THEN [kind |-> "returned",
                                      results |-> Results(js)]
                                ELSE [kind |-> "AssertionError"]
                  /\ c' = c
             ELSE /\ UNCHANGED outcome
                  /\ IF SleepsAfter(c, count)
                     THEN pc' = "sleep" /\ c' = c
                     ELSE pc' = "loop" /\ c' = c + 1
    /\ UNCHANGED <<on, count, delay_secs, n_jobs, arr, input_idxs, futures,
                   calls, fails, done_round, slept, mapper_calls, unc_round>>

\* the mapper returns one job per dispatched argument, in dispatch order;
\* the rest of the round: write back, then return, sleep or go on
RoundEnd ==
    /\ pc = "map"
    /\ AllCollected
    /\ LET js == WriteBack(jobs, input_idxs, MapperResults)
           failed == FailedJobs(js)
       IN /\ jobs' = js
          /\ failed_jobs' = failed
          /\ IF Len(failed) = 0
             THEN /\ pc' = "done"
                  /\ outcome' = IF Len(Results(js)) = Len(arr)
                                THEN [kind |-> "returned",
                                      results |-> Results(js)]
                                ELSE [kind |-> "AssertionError"]
                  /\ c' = c
             ELSE /\ UNCHANGED outcome
                  /\ IF SleepsAfter(c, count)
                     THEN pc' = "sleep" /\ c' = c
                     ELSE pc' = "loop" /\ c' = c + 1
    /\ UNCHANGED <<on, count, delay_secs, n_jobs, arr, input_idxs, futures,
                   calls, fails, done_round, slept, mapper_calls, unc_round>>

\* exception_behaviour='immediate': an exception that wrapped_fn let through
\* leaves the mapper and wrapped_mapper; what the other workers of the
\* round have done by then is up to the pool
MapperRaise(k) ==
    /\ pc = "map"
    /\ futures[k].kind = "exc"
    /\ pc' = "done"
    /\ outcome' = [kind |-> "propagated", exc |-> futures[k].exc]
    /\ UNCHANGED <<on, count, delay_secs, n_jobs, arr, c, jobs, failed_jobs,
                   input_idxs, futures, calls, fails, done_round, slept,
                   mapper_calls, unc_round>>

\* time.sleep(delay_secs), then the next iteration
Sleep ==
    /\ pc = "sleep"
    /\ slept' = Append(slept, delay_secs)
    /\ c' = c + 1
    /\ pc' = "loop"
    /\ UNCHANGED <<on, count, delay_secs, n_jobs, arr, jobs, failed_jobs,
                   input_idxs, futures, outcome, calls, fails, done_round,
                   mapper_calls, unc_round>>

\* the else branch of the for loop: raise JobsFailed(msg, failed_jobs)
RaiseJobsFailed ==
    /\ pc = "loop"
    /\ ~InRange(c, count)
    /\ pc' = "done"
    /\ outcome' = [kind |-> "JobsFailed", failed_jobs |-> failed_jobs]
    /\ UNCHANGED <<on, count, delay_secs, n_jobs, arr, c, jobs, failed_jobs,
                   input_idxs, futures, calls, fails, done_round, slept,
                   mapper_calls, unc_round>>

\* what one invocation of fn can do in round r
Raisable(r) == {NoExc} \cup {Exc(t, r) : t \in ExcTypes}

Next ==
    \/ MapWithRetry /\ UNCHANGED <<fvars, wvars, kvars>>
    \/ Call /\ UNCHANGED <<fvars, wvars, kvars>>
    \/ Dispatch /\ UNCHANGED <<fvars, wvars, kvars>>
    \/ \E k \in DOMAIN futures : WorkerStart(k) /\ UNCHANGED <<fvars, wvars, kvars>>
    \/ \E k \in DOMAIN futures : \E raised \in Raisable(c) :
          WorkerFinish(k, raised) /\ UNCHANGED <<fvars, wvars, kvars>>
    \/ RoundEnd /\ UNCHANGED <<fvars, wvars, kvars>>
    \/ \E k \in DOMAIN futures : MapperRaise(k) /\ UNCHANGED <<fvars, wvars, kvars>>
    \/ Sleep /\ UNCHANGED <<fvars, wvars, kvars>>
    \/ RaiseJobsFailed /\ UNCHANGED <<fvars, wvars, kvars>>

\* every invocation of fn terminates and the pool hands every submitted
\* argument to a worker; time.sleep returns
SpecLive == Init /\ [][Next]_vars /\ WF_vars(Next)

Spec == Init /\ [][Next]_vars

\* ------------------------------------------- mkdir_p_parallel, cp_p_parallel
\* retry_count: int = 5
DefaultRetryCount == 5

\* time.sleep(1)
RetrySleepSecs == 1

Paths == 1 .. MaxPaths

\* a path for mkdir_p, a (src, dst) pair for cp_p
ItemOf(o, p) == IF o = "mkdir" THEN <<p>> ELSE <<p, p + 10>>

DistinctSeqs(S, n) ==
    {q \in SeqsUpTo(S, n) :
       \A a, b \in DOMAIN q : a # b => q[a] # q[b]}

\* a path and its ancestors
Prefixes(p) == {SubSeq(p, 1, n) : n \in 1 .. Len(p)}

DirEntry(p) == [kind |-> "dir", path |-> p, from |-> <<>>]

FileEntry(p, src) == [kind |-> "file", path |-> p, from |-> src]

\* mkdir_p: path.mkdir(parents=True, exist_ok=True);
\* cp_p: shutil.copy2(src, dst), which replaces a file that is at dst
DiskAfter(o, item, d) ==
    IF o = "mkdir"
    THEN d \cup {DirEntry(q) : q \in Prefixes(item)}
    ELSE {e \in d : e.path # item[2]} \cup {FileEntry(item[2], <<item[1]>>)}

ReturnedNone == [is_none |-> TRUE]

Returned(x) == [is_none |-> FALSE, val |-> x]

\* variant: the argument is handed back whether or not the operation failed
passthrough_on_fail_Always(item, raised) ==
    IF raised.type \in {"none", "OSError"}
    THEN [kind |-> "value", value |-> Returned(item)]
    ELSE [kind |-> "exc", exc |-> raised]

\* variant: `except Exception` in place of `except OSError`
passthrough_on_fail_CatchAll(item, raised) ==
    IF raised.type = "none"
    THEN [kind |-> "value", value |-> ReturnedNone]
    ELSE [kind |-> "value", value |-> Returned(item)]

\* _mkdir_p_passthrough_on_fail, _cp_p_passthrough_on_fail: None when the
\* operation succeeds, the argument on OSError, any other error goes on
passthrough_on_fail(item, raised) ==
    IF raised.type = "none"
    THEN [kind |-> "value", value |-> ReturnedNone]
    ELSE IF raised.type = "OSError"
         THEN [kind |-> "value", value |-> Returned(item)]
         ELSE [kind |-> "exc", exc |-> raised]

\* variant: only a negative retry_count is rejected
RetryCountRejected_Neg(rc) == rc < 0

\* if retry_count <= 0: raise ValueError
RetryCountRejected(rc) == rc <= 0

\* range(retry_count)
FsInRange_Short(j, rc) == j >= 0 /\ j < rc

\* for i in range(retry_count + 1)
FsInRange(j, rc) == j >= 0 /\ j < rc + 1

\* if i < retry_count: ... time.sleep(1)
FsRetries(j, rc) == j < rc

NotNone(r) == ~r.is_none

\* [result for result in map_mt_with_tqdm(...) if result is not None]
Remaining(res) ==
    LET kept == SelectSeq(res, NotNone) IN [k \in DOMAIN kept |-> kept[k].val]

\* variant: the message is built from the list the last round was given
FsMessage_Stale(o, pm) ==
    IF o = "mkdir"
    THEN [text |-> "Failed to create directories", named |-> path_multi]
    ELSE [text |-> "Failed to copy files",
          named |-> [k \in DOMAIN path_multi |->
                       <<path_multi[k][1], "->", path_multi[k][2]>>]]

\* the message of the RuntimeError
FsMessage(o, pm) ==
    IF o = "mkdir"
    THEN [text |-> "Failed to create directories", named |-> pm]
    ELSE [text |-> "Failed to copy files",
          named |-> [k \in DOMAIN pm |-> <<pm[k][1], "->", pm[k][2]>>]]

MapperIdle ==
    /\ on = {}
    /\ count = 1
    /\ delay_secs = 0
    /\ n_jobs = 1
    /\ arr = <<>>
    /\ pc = "off"
    /\ c = 0
    /\ jobs = <<>>
    /\ failed_jobs = <<>>
    /\ input_idxs = <<>>
    /\ futures = <<>>
    /\ outcome = [kind |-> "none"]
    /\ calls = <<>>
    /\ fails = <<>>
    /\ done_round = <<>>
    /\ slept = <<>>
    /\ mapper_calls = 0
    /\ unc_round = 0

InitFs ==
    /\ MapperIdle
    /\ WfIdle
    /\ MkIdle
    /\ op \in {"mkdir", "cp"}
    /\ retry_count \in (-1 .. MaxRetry) \cup {DefaultRetryCount}
    /\ fs_n_jobs \in 1 .. MaxJobs
    /\ \E q \in DistinctSeqs(Paths, MaxPaths) :
          /\ path_multi = [k \in DOMAIN q |-> ItemOf(op, q[k])]
          /\ attempts = [x \in {ItemOf(op, q[k]) : k \in DOMAIN q} |-> 0]
          /\ fail_rounds = [x \in {ItemOf(op, q[k]) : k \in DOMAIN q} |-> {}]
    /\ fs_i = 0
    /\ fs_pc = "start"
    /\ fs_futures = <<>>
    /\ fs_outcome = [kind |-> "none"]
    /\ succeeded = {}
    /\ fs_slept = <<>>
    /\ other_round = -1
    /\ disk = {}

\* the head of the loop for index j: call map_mt_with_tqdm on pm, or fall
\* out of the loop onto the AssertionError below it
EnterRound(j, pm) ==
    /\ fs_i' = j
    /\ IF FsInRange(j, retry_count)
       THEN /\ fs_futures' = [k \in DOMAIN pm |->
                                [kind |-> "pending", arg |-> pm[k]]]
            /\ fs_pc' = "map"
            /\ UNCHANGED fs_outcome
       ELSE /\ fs_futures' = <<>>
            /\ fs_pc' = "done"
            /\ fs_outcome' = [kind |-> "AssertionError"]

\* mkdir_p_parallel(...) / cp_p_parallel(...) up to the first map
FsCall ==
    /\ fs_pc = "start"
    /\ IF RetryCountRejected(retry_count)
       THEN /\ fs_pc' = "done"
            /\ fs_outcome' = [kind |-> "ValueError"]
            /\ UNCHANGED <<fs_i, fs_futures>>
       ELSE EnterRound(0, path_multi)
    /\ UNCHANGED <<op, retry_count, fs_n_jobs, path_multi, attempts,
                   succeeded, fs_slept, other_round, fail_rounds, disk>>

FsRunning == {k \in DOMAIN fs_futures : fs_futures[k].kind = "running"}

\* a free worker takes an item and starts mkdir_p / cp_p on it
FsWorkerStart(k) ==
    /\ fs_pc = "map"
    /\ fs_futures[k].kind = "pending"
    /\ Cardinality(FsRunning) < fs_n_jobs
    /\ fs_futures' = [fs_futures EXCEPT ![k].kind = "running"]
    /\ attempts' = [attempts EXCEPT ![fs_futures[k].arg] = @ + 1]
    /\ UNCHANGED <<op, retry_count, fs_n_jobs, path_multi, fs_i, fs_pc,
                   fs_outcome, succeeded, fs_slept, other_round,
                   fail_rounds, disk>>

\* the operation ends: done, OSError, or an error of another class
FsWorkerFinish(k, raised) ==
    /\ fs_pc = "map"
    /\ fs_futures[k].kind = "running"
    /\ fs_futures' = [fs_futures EXCEPT
                        ![k] = passthrough_on_fail(fs_futures[k].arg, raised)]
    /\ succeeded' = IF raised.type = "none"
                    THEN succeeded \cup {fs_futures[k].arg} ELSE succeeded
    /\ other_round' = IF raised.type \notin {"none", "OSError"}
                      THEN fs_i ELSE other_round
    /\ fail_rounds' = IF raised.type = "OSError"
                      THEN [fail_rounds EXCEPT
                              ![fs_futures[k].arg] = @ \cup {fs_i}]
                      ELSE fail_rounds
    /\ disk' = IF raised.type = "none"
               THEN DiskAfter(op, fs_futures[k].arg, disk) ELSE disk
    /\ UNCHANGED <<op, retry_count, fs_n_jobs, path_multi, fs_i, fs_pc,
                   fs_outcome, attempts, fs_slept>>

FsAllCollected == \A k \in DOMAIN fs_futures : fs_futures[k].kind = "value"

FsMapperResults == [k \in DOMAIN fs_futures |-> fs_futures[k].value]

\* the map returns: keep what failed, then return, sleep or raise
FsRoundEnd ==
    /\ fs_pc = "map"
    /\ FsAllCollected
    /\ path_multi' = Remaining(FsMapperResults)
    /\ IF Len(path_multi') = 0
       THEN /\ fs_pc' = "done"
            /\ fs_outcome' = [kind |-> "returned"]
       ELSE IF FsRetries(fs_i, retry_count)
            THEN /\ fs_pc' = "sleep"
                 /\ UNCHANGED fs_outcome
            ELSE /\ fs_pc' = "done"
                 /\ fs_outcome' = [kind |-> "RuntimeError",
                                   msg |-> FsMessage(op, path_multi')]
    /\ UNCHANGED <<op, retry_count, fs_n_jobs, fs_i, fs_futures, attempts,
                   succeeded, fs_slept, other_round, fail_rounds, disk>>

\* an error that is no OSError leaves the map and the batch operation
FsMapperRaise(k) ==
    /\ fs_pc = "map"
    /\ fs_futures[k].kind = "exc"
    /\ fs_pc' = "done"
    /\ fs_outcome' = [kind |-> "propagated", exc |-> fs_futures[k].exc]
    /\ UNCHANGED <<op, retry_count, fs_n_jobs, path_multi, fs_i, fs_futures,
                   attempts, succeeded, fs_slept, other_round, fail_rounds,
                   disk>>

\* time.sleep(1), then the next iteration
FsSleep ==
    /\ fs_pc = "sleep"
    /\ fs_slept' = Append(fs_slept, RetrySleepSecs)
    /\ EnterRound(fs_i + 1, path_multi)
    /\ UNCHANGED <<op, retry_count, fs_n_jobs, path_multi, attempts,
                   succeeded, other_round, fail_rounds, disk>>

NextFs ==
    \/ FsCall /\ UNCHANGED <<mvars, wvars, kvars>>
    \/ \E k \in DOMAIN fs_futures : FsWorkerStart(k) /\ UNCHANGED <<mvars, wvars, kvars>>
    \/ \E k \in DOMAIN fs_futures : \E raised \in Raisable(fs_i) :
          FsWorkerFinish(k, raised) /\ UNCHANGED <<mvars, wvars, kvars>>
    \/ FsRoundEnd /\ UNCHANGED <<mvars, wvars, kvars>>
    \/ \E k \in DOMAIN fs_futures : FsMapperRaise(k) /\ UNCHANGED <<mvars, wvars, kvars>>
    \/ FsSleep /\ UNCHANGED <<mvars, wvars, kvars>>

SpecFs == InitFs /\ [][NextFs]_vars

\* ---------------------------------------------- the workflows diff, groupby
Dst == <<"dst">>

Src1 == <<"src1">>

Src2 == <<"src2">>

Src == <<"src">>

\* relative paths of the files of a source tree
RelPaths == {<<"x">>, <<"a", "x">>, <<"a", "y">>}

\* the names mimetypes.guess_type maps to image/*
ImageNames == {"x", "y"}

Groups == {"year", "month", "day"}

Tag(t, y, m, d) == [tag |-> t, year |-> y, month |-> m, day |-> d]

Absent == Tag("absent", 0, 0, 0)

Invalid == Tag("invalid", 0, 0, 0)

\* a tag value in the form YYYY:MM:DD HH:MM:SS
Stamp(y, m, d) == Tag("datetime", y, m, d)

\* EXIF tags DateTimeOriginal, DateTimeDigitized, DateTime
Exif(o, g, t) == [original |-> o, digitized |-> g, datetime |-> t]

NoExif == Exif(Absent, Absent, Absent)

\* the files of the sources of diff: contents 0 (zero length) and 1; a file
\* that can never be read; and files whose read fails with OSError while
\* they are hashed and succeeds later, when they are copied
DiffKinds ==
    {[data |-> 0, readable |-> TRUE, copyable |-> TRUE, exif |-> NoExif],
     [data |-> 1, readable |-> TRUE, copyable |-> TRUE, exif |-> NoExif],
     [data |-> 1, readable |-> FALSE, copyable |-> FALSE, exif |-> NoExif],
     [data |-> 0, readable |-> FALSE, copyable |-> TRUE, exif |-> NoExif],
     [data |-> 1, readable |-> FALSE, copyable |-> TRUE, exif |-> NoExif]}

\* the files of the source of groupby
GroupKinds ==
    {[data |-> 1, readable |-> TRUE, copyable |-> TRUE, exif |-> x] :
       x \in {Exif(Stamp(2020, 1, 5), Absent, Stamp(2021, 1, 5)),
              Exif(Invalid, Stamp(2020, 1, 20), Absent),
              Exif(Absent, Absent, Stamp(2020, 11, 5)),
              Exif(Absent, Absent, Stamp(2021, 1, 5)),
              Exif(Absent, Invalid, Absent)}}

File(rel, kind) ==
    [rel |-> rel, data |-> kind.data, readable |-> kind.readable,
     copyable |-> kind.copyable, exif |-> kind.exif]

\* the source trees of at most n files, in the order rglob yields them
Trees(K, n) ==
    UNION {{[k \in DOMAIN q |-> File(q[k], f[k])] : f \in [DOMAIN q -> K]} :
             q \in DistinctSeqs(RelPaths, n)}

Parent(p) == SubSeq(p, 1, Len(p) - 1)

Name(p) == p[Len(p)]

\* path.relative_to(root)
RelativeTo(p, root) == SubSeq(p, Len(root) + 1, Len(p))

RECURSIVE SetToSeq(_)
SetToSeq(S) ==
    IF S = {} THEN <<>>
    ELSE LET x == CHOOSE y \in S : TRUE IN <<x>> \o SetToSeq(S \ {x})

\* is_image: decided from the name alone
is_image(path) == Name(path) \in ImageNames

\* root.rglob('*'): the directories and the files below root
Rglob(root, tree) ==
    SetToSeq({root \o d : d \in UNION {Prefixes(Parent(tree[k].rel)) :
                                          k \in DOMAIN tree}})
      \o [k \in DOMAIN tree |-> root \o tree[k].rel]

\* [path for path in root.rglob('*') if is_image(path)]
Enumerate(root, tree) == SelectSeq(Rglob(root, tree), is_image)

\* the file a path of a source names
FileIn(root, tree, path) ==
    LET k == CHOOSE j \in DOMAIN tree : root \o tree[j].rel = path IN tree[k]

\* hasher.hexdigest(): different contents have different digests
HexDigest(data) == <<"digest", data>>

\* the empty string
EmptyDigest == <<>>

\* variant: a file that cannot be read is hashed as if it were empty
cksum_EmptyContent(f) ==
    IF f.readable THEN HexDigest(f.data) ELSE HexDigest(0)

\* cksum: the digest of the content, '' when the file cannot be read
cksum(f) == IF f.readable THEN HexDigest(f.data) ELSE EmptyDigest

None == [is_none |-> TRUE, year |-> 0, month |-> 0, day |-> 0]

Datetime(y, m, d) == [is_none |-> FALSE, year |-> y, month |-> m, day |-> d]

\* _try_parse_exif_datetime
try_parse_exif_datetime(tag_value) ==
    IF tag_value.tag = "datetime"
    THEN Datetime(tag_value.year, tag_value.month, tag_value.day)
    ELSE None

\* read_exif_tags: no tags at all when the file cannot be opened
read_exif_tags(f) == IF f.readable THEN f.exif ELSE NoExif

\* read_captured_timestamp: the first of the three tags that parses
read_captured_timestamp(f) ==
    LET exif_tags == read_exif_tags(f)
        o == try_parse_exif_datetime(exif_tags.original)
        g == try_parse_exif_datetime(exif_tags.digitized)
        t == try_parse_exif_datetime(exif_tags.datetime)
    IN  IF ~o.is_none THEN o ELSE IF ~g.is_none THEN g ELSE t

\* %m and %d: two digits
Pad2(n) == IF n < 10 THEN "0" \o ToString(n) ELSE ToString(n)

\* variant: the day is left out of the name of a day group
get_dst_dir_name_NoDay(timestamp, groupby) ==
    IF groupby = "year"
    THEN ToString(timestamp.year)
    ELSE ToString(timestamp.year) \o Pad2(timestamp.month)

\* _get_dst_dir_name: strftime %Y, %Y%m, %Y%m%d
get_dst_dir_name(timestamp, groupby) ==
    IF groupby = "year"
    THEN ToString(timestamp.year)
    ELSE IF groupby = "month"
         THEN ToString(timestamp.year) \o Pad2(timestamp.month)
         ELSE ToString(timestamp.year) \o Pad2(timestamp.month)
                \o Pad2(timestamp.day)

\* the name of the group of an image
dst_dir_name(captured_timestamp, groupby) ==
    IF captured_timestamp.is_none
    THEN "UNKNOWN"
    ELSE get_dst_dir_name(captured_timestamp, groupby)

\* variant: the first path of a digest is kept
HashToPath_FirstWins(paths, hashes) ==
    [h \in Range(hashes) |->
       paths[CHOOSE k \in DOMAIN hashes :
               /\ hashes[k] = h
               /\ \A j \in DOMAIN hashes : hashes[j] = h => j >= k]]

\* {img_hash: img_path for img_path, img_hash in zip(paths, hashes)}
HashToPath(paths, hashes) ==
    [h \in Range(hashes) |->
       paths[CHOOSE k \in DOMAIN hashes :
               /\ hashes[k] = h
               /\ \A j \in DOMAIN hashes : hashes[j] = h => j <= k]]

hashes_in_both(h1, h2) == h1 \cap h2

\* variant: nothing is taken away from the digests of src1
hashes_in_src1_only_All(h1, h2) == h1

hashes_in_src1_only(h1, h2) == h1 \ h2

\* variant: nothing is taken away from the digests of src2
hashes_in_src2_only_All(h1, h2) == h2

hashes_in_src2_only(h1, h2) == h2 \ h1

\* variant: the file name alone is kept below the category directory
src_path_to_dst_path_Flat(hash_to_path, hashes, category, root) ==
    [p \in {hash_to_path[h] : h \in hashes} |->
       Dst \o <<category>> \o <<Name(p)>>]

\* {hash_to_path[h]: dst / category / hash_to_path[h].relative_to(root)}
src_path_to_dst_path(hash_to_path, hashes, category, root) ==
    [p \in {hash_to_path[h] : h \in hashes} |->
       Dst \o <<category>> \o RelativeTo(p, root)]

\* the three dictionaries of diff
DiffPlan(category, root1, paths1, hashes1, root2, paths2, hashes2) ==
    LET h1 == Range(hashes1)
        h2 == Range(hashes2)
    IN  IF category = "both"
        THEN src_path_to_dst_path(HashToPath(paths1, hashes1),
                                  hashes_in_both(h1, h2), "both", root1)
        ELSE IF category = "src1_only"
             THEN src_path_to_dst_path(HashToPath(paths1, hashes1),
                                       hashes_in_src1_only(h1, h2),
                                       "src1_only", root1)
             ELSE src_path_to_dst_path(HashToPath(paths2, hashes2),
                                       hashes_in_src2_only(h1, h2),
                                       "src2_only", root2)

\* dst_dir_name_to_src_img_paths: the paths of each group, in order
dst_dir_name_to_src_img_paths(paths, timestamps, groupby) ==
    LET names == [k \in DOMAIN paths |->
                    dst_dir_name(timestamps[k], groupby)]
    IN  [n \in Range(names) |->
           LET InGroup(p) == \E k \in DOMAIN paths :
                                paths[k] = p /\ names[k] = n
           IN  SelectSeq(paths, InGroup)]

\* variant: the path below src is kept below the group directory
src_img_path_to_dst_img_path_Rel(paths, timestamps, groupby) ==
    LET groups == dst_dir_name_to_src_img_paths(paths, timestamps, groupby)
    IN  [p \in UNION {Range(groups[n]) : n \in DOMAIN groups} |->
           LET n == CHOOSE m \in DOMAIN groups : p \in Range(groups[m])
           IN  Dst \o <<n>> \o RelativeTo(p, Src)]

\* {src_img_path: dst / dst_dir_name / src_img_path.name ...}
src_img_path_to_dst_img_path(paths, timestamps, groupby) ==
    LET groups == dst_dir_name_to_src_img_paths(paths, timestamps, groupby)
    IN  [p \in UNION {Range(groups[n]) : n \in DOMAIN groups} |->
           LET n == CHOOSE m \in DOMAIN groups : p \in Range(groups[m])
           IN  Dst \o <<n>> \o <<Name(p)>>]

\* variant: the directory above the parent is asked for
MkdirItems_Above(plan) == SetToSeq({Parent(Parent(plan[p])) : p \in DOMAIN plan})

\* {path.parent for path in plan.values()}
MkdirItems(plan) == SetToSeq({Parent(plan[p]) : p \in DOMAIN plan})

\* plan.items()
CpItems(plan) == SetToSeq({<<p, plan[p]>> : p \in DOMAIN plan})

\* variant: the destination is never looked at
DstRejected_Never(d) == FALSE

\* dst.exists()
DstRejected(d) == \E e \in d : e.path = Dst

\* click.IntRange(min=1) of the option --threads
ThreadsRejected(t) == t < 1

\* ThreadPoolExecutor(max_workers=n_jobs) accepts positive widths only
PoolRejected(t) == t <= 0

\* variant: the results are listed in the order the workers finished
map_results_AsCompleted(fut) ==
    [n \in DOMAIN fut |->
       fut[CHOOSE k \in DOMAIN fut : fut[k].nth = n - 1].value]

\* the results of map_mt_with_tqdm, in the order of the arguments
map_results(fut) == [k \in DOMAIN fut |-> fut[k].value]

\* variant: src2_only is materialized before src1_only
NextCat_Swapped(category) ==
    IF category = "both" THEN "src2_only"
    ELSE IF category = "src2_only" THEN "src1_only" ELSE "none"

NextCat(category) ==
    IF category = "both" THEN "src1_only"
    ELSE IF category = "src1_only" THEN "src2_only" ELSE "none"

Root1 == IF wf = "diff" THEN Src1 ELSE Src

\* the file behind a path of one of the sources
FileAt(path) ==
    IF path[1] = Src2[1]
    THEN FileIn(Src2, tree2, path)
    ELSE FileIn(Root1, tree1, path)

\* the dictionary the current category is materialized from
CopyPlan(category) ==
    IF category = "all"
    THEN src_img_path_to_dst_img_path(src_img_paths,
                                      src_img_captured_timestamps, group)
    ELSE DiffPlan(category, Src1, src1_img_paths, src1_img_hashes,
                  Src2, src2_img_paths, src2_img_hashes)

InitWf ==
    /\ MapperIdle
    /\ MkIdle
    /\ wf \in {"diff", "groupby"}
    /\ threads \in 0 .. MaxJobs
    /\ wf_pc \in {"cli", "call"}
    /\ disk0 \in {{}, {DirEntry(Dst)}}
    /\ disk = disk0
    /\ IF wf = "diff"
       THEN /\ group = "month"
            /\ tree1 \in Trees(DiffKinds, MaxFiles)
            /\ tree2 \in Trees(DiffKinds, MaxFiles - Len(tree1))
       ELSE /\ group \in Groups
            /\ tree1 \in Trees(GroupKinds, MaxFiles)
            /\ tree2 = <<>>
    /\ cat = "none"
    /\ src1_img_paths = <<>>
    /\ src1_img_hashes = <<>>
    /\ src2_img_paths = <<>>
    /\ src2_img_hashes = <<>>
    /\ src_img_paths = <<>>
    /\ src_img_captured_timestamps = <<>>
    /\ wf_outcome = [kind |-> "none", why |-> ""]
    /\ log = <<>>
    /\ op = "mkdir"
    /\ retry_count = 0
    /\ fs_n_jobs = 1
    /\ path_multi = <<>>
    /\ fs_i = 0
    /\ fs_pc = "off"
    /\ fs_futures = <<>>
    /\ fs_outcome = [kind |-> "none"]
    /\ attempts = <<>>
    /\ succeeded = {}
    /\ fs_slept = <<>>
    /\ other_round = -1
    /\ fail_rounds = <<>>

\* the state of a batch that is about to run over items
SetBatch(o, items, rc, pcv, futs) ==
    /\ op' = o
    /\ retry_count' = rc
    /\ fs_n_jobs' = threads
    /\ path_multi' = items
    /\ fs_i' = 0
    /\ fs_pc' = pcv
    /\ fs_futures' = futs
    /\ fs_outcome' = [kind |-> "none"]
    /\ attempts' = [x \in Range(items) |-> 0]
    /\ succeeded' = {}
    /\ fs_slept' = <<>>
    /\ other_round' = -1
    /\ fail_rounds' = [x \in Range(items) |-> {}]

\* mkdir_p_parallel(items, n_jobs=threads), cp_p_parallel(items,
\* n_jobs=threads): retry_count is left at its default
CallBatch(o, items) == SetBatch(o, items, DefaultRetryCount, "start", <<>>)

\* map_mt_with_tqdm(items, f, n_jobs=threads): the pool is made, or refuses
\* its width, and every item is submitted
MapMt(o, items, nxt, lg) ==
    IF PoolRejected(threads)
    THEN /\ wf_pc' = "done"
         /\ wf_outcome' = [kind |-> "ValueError", why |-> "max_workers"]
         /\ log' = lg
         /\ UNCHANGED fbatch
    ELSE /\ SetBatch(o, items, 0, "plain",
                     [k \in DOMAIN items |->
                        [kind |-> "pending", arg |-> items[k]]])
         /\ wf_pc' = nxt
         /\ log' = Append(lg, o)
         /\ UNCHANGED wf_outcome

\* the command line hands the options to the workflow
ClickParse ==
    /\ wf_pc = "cli"
    /\ IF ThreadsRejected(threads)
       THEN /\ wf_pc' = "done"
            /\ wf_outcome' = [kind |-> "UsageError", why |-> "threads"]
       ELSE /\ wf_pc' = "call"
            /\ UNCHANGED wf_outcome
    /\ UNCHANGED <<winputs, wlocals, cat, log, fvars>>

\* diff(...) / groupby(...) up to the test of dst
WfEnter ==
    /\ wf_pc = "call"
    /\ IF DstRejected(disk)
       THEN /\ wf_pc' = "done"
            /\ wf_outcome' = [kind |-> "ValueError", why |-> "dst exists"]
       ELSE /\ wf_pc' = "enumerate"
            /\ UNCHANGED wf_outcome
    /\ UNCHANGED <<winputs, wlocals, cat, log, fvars>>

\* diff: src1_img_paths, then the hashes of src1 are asked for;
\* cksum_parallel is map_mt_with_tqdm over cksum, as cli/diff.py writes it,
\* and disable_progbar only silences the progress bar
DiffEnumerateSrc1 ==
    /\ wf = "diff" /\ wf_pc = "enumerate"
    /\ src1_img_paths' = Enumerate(Src1, tree1)
    /\ MapMt("cksum", src1_img_paths', "hash1",
             Append(log, "enumerate src1"))
    /\ UNCHANGED <<winputs, src1_img_hashes, src2_img_paths, src2_img_hashes,
                   src_img_paths, src_img_captured_timestamps, cat, disk>>

PlainRunning == {k \in DOMAIN fs_futures : fs_futures[k].kind = "running"}

PlainFinished == {k \in DOMAIN fs_futures : fs_futures[k].kind = "value"}

\* a free worker takes the next submitted item
PlainWorkerStart(k) ==
    /\ fs_pc = "plain"
    /\ fs_futures[k].kind = "pending"
    /\ \A j \in 1 .. (k - 1) : fs_futures[j].kind # "pending"
    /\ Cardinality(PlainRunning) < fs_n_jobs
    /\ fs_futures' = [fs_futures EXCEPT ![k].kind = "running"]
    /\ attempts' = [attempts EXCEPT ![fs_futures[k].arg] = @ + 1]
    /\ UNCHANGED <<op, retry_count, fs_n_jobs, path_multi, fs_i, fs_pc,
                   fs_outcome, succeeded, fs_slept, other_round,
                   fail_rounds, disk>>
    /\ UNCHANGED wvars

\* cksum(path, digest=hasher) or read_captured_timestamp(path) returns
PlainWorkerFinish(k) ==
    /\ fs_pc = "plain"
    /\ fs_futures[k].kind = "running"
    /\ fs_futures' =
         [fs_futures EXCEPT
            ![k] = [kind |-> "value",
                    value |-> IF op = "cksum"
                              THEN cksum(FileAt(fs_futures[k].arg))
                              ELSE read_captured_timestamp(
                                       FileAt(fs_futures[k].arg)),
                    nth |-> Cardinality(PlainFinished)]]
    /\ UNCHANGED <<op, retry_count, fs_n_jobs, path_multi, fs_i, fs_pc,
                   fs_outcome, attempts, succeeded, fs_slept, other_round,
                   fail_rounds, disk>>
    /\ UNCHANGED wvars

PlainAllCollected ==
    \A k \in DOMAIN fs_futures : fs_futures[k].kind = "value"

\* diff: src1_img_hashes, src2_img_paths, then the hashes of src2
DiffEnumerateSrc2 ==
    /\ wf = "diff" /\ wf_pc = "hash1"
    /\ fs_pc = "plain" /\ PlainAllCollected
    /\ src1_img_hashes' = map_results(fs_futures)
    /\ src2_img_paths' = Enumerate(Src2, tree2)
    /\ MapMt("cksum", src2_img_paths', "hash2",
             Append(log, "enumerate src2"))
    /\ UNCHANGED <<winputs, src1_img_paths, src2_img_hashes, src_img_paths,
                   src_img_captured_timestamps, cat, disk>>

\* diff: src2_img_hashes, the three sets of digests, and the directories
\* of the images in both are asked for
DiffPartition ==
    /\ wf = "diff" /\ wf_pc = "hash2"
    /\ fs_pc = "plain" /\ PlainAllCollected
    /\ src2_img_hashes' = map_results(fs_futures)
    /\ cat' = "both"
    /\ CallBatch("mkdir",
                 MkdirItems(DiffPlan("both", Src1, src1_img_paths,
                                     src1_img_hashes, Src2, src2_img_paths,
                                     src2_img_hashes')))
    /\ wf_pc' = "mkdir"
    /\ log' = Append(log, "mkdir both")
    /\ UNCHANGED <<winputs, src1_img_paths, src1_img_hashes, src2_img_paths,
                   src_img_paths, src_img_captured_timestamps, wf_outcome,
                   disk>>

\* groupby: src_img_paths, then the timestamps are asked for
GroupbyEnumerate ==
    /\ wf = "groupby" /\ wf_pc = "enumerate"
    /\ src_img_paths' = Enumerate(Src, tree1)
    /\ MapMt("read_captured_timestamp", src_img_paths', "metadata",
             Append(log, "enumerate src"))
    /\ UNCHANGED <<winputs, src1_img_paths, src1_img_hashes, src2_img_paths,
                   src2_img_hashes, src_img_captured_timestamps, cat, disk>>

\* groupby: src_img_captured_timestamps, the groups, the destination of
\* every image, and the directories are asked for
GroupbyGroup ==
    /\ wf = "groupby" /\ wf_pc = "metadata"
    /\ fs_pc = "plain" /\ PlainAllCollected
    /\ src_img_captured_timestamps' = map_results(fs_futures)
    /\ cat' = "all"
    /\ CallBatch("mkdir",
                 MkdirItems(src_img_path_to_dst_img_path(
                                src_img_paths, src_img_captured_timestamps',
                                group)))
    /\ wf_pc' = "mkdir"
    /\ log' = Append(log, "mkdir all")
    /\ UNCHANGED <<winputs, src1_img_paths, src1_img_hashes, src2_img_paths,
                   src2_img_hashes, src_img_paths, wf_outcome, disk>>

\* mkdir_p_parallel has ended: the copies of the category are asked for, or
\* its error leaves the workflow
MkdirReturn ==
    /\ wf_pc = "mkdir" /\ fs_pc = "done"
    /\ IF fs_outcome.kind = "returned"
       THEN /\ CallBatch("cp", CpItems(CopyPlan(cat)))
            /\ wf_pc' = "cp"
            /\ log' = Append(log, "cp " \o cat)
            /\ UNCHANGED wf_outcome
       ELSE /\ wf_pc' = "done"
            /\ wf_outcome' = [kind |-> fs_outcome.kind, why |-> "mkdir"]
            /\ UNCHANGED <<fbatch, log>>
    /\ UNCHANGED <<winputs, wlocals, cat, disk>>

\* variant: when the copies fail, what the run has written is taken away
CpReturn_Rollback ==
    /\ wf_pc = "cp" /\ fs_pc = "done"
    /\ IF fs_outcome.kind # "returned"
       THEN /\ wf_pc' = "done"
            /\ wf_outcome' = [kind |-> fs_outcome.kind, why |-> "cp"]
            /\ disk' = disk0
            /\ UNCHANGED <<fbatch, log, cat>>
       ELSE /\ UNCHANGED disk
            /\ IF cat = "all" \/ NextCat(cat) = "none"
               THEN /\ wf_pc' = "done"
                    /\ wf_outcome' = [kind |-> "returned", why |-> ""]
                    /\ UNCHANGED <<fbatch, log, cat>>
               ELSE /\ cat' = NextCat(cat)
                    /\ CallBatch("mkdir", MkdirItems(CopyPlan(NextCat(cat))))
                    /\ wf_pc' = "mkdir"
                    /\ log' = Append(log, "mkdir " \o NextCat(cat))
                    /\ UNCHANGED wf_outcome
    /\ UNCHANGED <<winputs, wlocals>>

\* cp_p_parallel has ended: the next category, the end of the workflow, or
\* its error leaves the workflow
CpReturn ==
    /\ wf_pc = "cp" /\ fs_pc = "done"
    /\ IF fs_outcome.kind # "returned"
       THEN /\ wf_pc' = "done"
            /\ wf_outcome' = [kind |-> fs_outcome.kind, why |-> "cp"]
            /\ UNCHANGED <<fbatch, log, cat>>
       ELSE IF cat = "all" \/ NextCat(cat) = "none"
            THEN /\ wf_pc' = "done"
                 /\ wf_outcome' = [kind |-> "returned", why |-> ""]
                 /\ UNCHANGED <<fbatch, log, cat>>
            ELSE /\ cat' = NextCat(cat)
                 /\ CallBatch("mkdir", MkdirItems(CopyPlan(NextCat(cat))))
                 /\ wf_pc' = "mkdir"
                 /\ log' = Append(log, "mkdir " \o NextCat(cat))
                 /\ UNCHANGED wf_outcome
    /\ UNCHANGED <<winputs, wlocals, disk>>

\* what mkdir_p / cp_p raise in the workflows: copy2 needs a source it can
\* read and the directory of the destination
WfRaised(o, item) ==
    IF o = "mkdir"
    THEN NoExc
    ELSE IF FileAt(item[1]).copyable /\ DirEntry(Parent(item[2])) \in disk
         THEN NoExc
         ELSE Exc("OSError", fs_i)

NextWf ==
    \/ ClickParse /\ UNCHANGED <<mvars, kvars>>
    \/ WfEnter /\ UNCHANGED <<mvars, kvars>>
    \/ DiffEnumerateSrc1 /\ UNCHANGED <<mvars, kvars>>
    \/ \E k \in DOMAIN fs_futures : PlainWorkerStart(k) /\ UNCHANGED <<mvars, kvars>>
    \/ \E k \in DOMAIN fs_futures : PlainWorkerFinish(k) /\ UNCHANGED <<mvars, kvars>>
    \/ DiffEnumerateSrc2 /\ UNCHANGED <<mvars, kvars>>
    \/ DiffPartition /\ UNCHANGED <<mvars, kvars>>
    \/ GroupbyEnumerate /\ UNCHANGED <<mvars, kvars>>
    \/ GroupbyGroup /\ UNCHANGED <<mvars, kvars>>
    \/ MkdirReturn /\ UNCHANGED <<mvars, kvars>>
    \/ CpReturn /\ UNCHANGED <<mvars, kvars>>
    \/ FsCall /\ UNCHANGED <<mvars, wvars, kvars>>
    \/ \E k \in DOMAIN fs_futures :
          FsWorkerStart(k) /\ UNCHANGED <<mvars, wvars, kvars>>
    \/ \E k \in DOMAIN fs_futures :
          /\ fs_pc = "map"
          /\ fs_futures[k].kind = "running"
          /\ FsWorkerFinish(k, WfRaised(op, fs_futures[k].arg))
          /\ UNCHANGED <<mvars, wvars, kvars>>
    \/ FsRoundEnd /\ UNCHANGED <<mvars, wvars, kvars>>
    \/ FsSleep /\ UNCHANGED <<mvars, wvars, kvars>>

SpecWf == InitWf /\ [][NextWf]_vars

\* ------------------------------------- mkdir_p under concurrent requests
\* the directories a round may ask for: one below the other, two below the
\* same parent
MkPaths == {<<"a">>, <<"a", "b">>, <<"a", "c">>, <<"a", "b", "d">>}

\* the directory the relative paths start from is there
MkRoot == <<>>

MkExists(p, dirs) == p = MkRoot \/ p \in dirs

\* one call of Path.mkdir: its arguments and where it stands
Frame(path, parents, exist_ok) ==
    [path |-> path, parents |-> parents, exist_ok |-> exist_ok,
     at |-> "os.mkdir"]

\* path.mkdir(parents=True, exist_ok=False)
mkdir_p_Exclusive(path) == Frame(path, TRUE, FALSE)

\* path.mkdir(parents=True, exist_ok=True)
mkdir_p(path) == Frame(path, TRUE, TRUE)

InitMk ==
    /\ MapperIdle
    /\ FsIdle
    /\ WfIdle
    /\ mk_n_jobs \in 1 .. MaxJobs
    /\ mk_paths \in SeqsUpTo(MkPaths, MaxPaths) \ {<<>>}
    /\ mk_dirs \in {D \in SUBSET MkPaths : \A p \in D : Prefixes(p) \subseteq D}
    /\ mk_stack = [k \in DOMAIN mk_paths |-> <<>>]
    /\ mk_state = [k \in DOMAIN mk_paths |-> "pending"]
    /\ mk_errs = [k \in DOMAIN mk_paths |-> <<>>]

MkRunning == {k \in DOMAIN mk_state : mk_state[k] = "running"}

MkTop(k) == mk_stack[k][Len(mk_stack[k])]

\* the innermost call returns: its caller goes on, or the request is done
MkPopped(k) ==
    /\ mk_stack' = [mk_stack EXCEPT ![k] = SubSeq(@, 1, Len(@) - 1)]
    /\ mk_state' = [mk_state EXCEPT
                      ![k] = IF Len(mk_stack[k]) = 1 THEN "returned" ELSE @]

\* no call of Path.mkdir catches what it re-raises: the error leaves mkdir_p
MkRaised(k) ==
    /\ mk_stack' = [mk_stack EXCEPT ![k] = <<>>]
    /\ mk_state' = [mk_state EXCEPT ![k] = "raised"]

\* a free worker of the pool takes a path and calls mkdir_p
MkStart(k) ==
    /\ mk_state[k] = "pending"
    /\ Cardinality(MkRunning) < mk_n_jobs
    /\ mk_state' = [mk_state EXCEPT ![k] = "running"]
    /\ mk_stack' = [mk_stack EXCEPT ![k] = <<mkdir_p(mk_paths[k])>>]
    /\ UNCHANGED <<mk_dirs, mk_n_jobs, mk_paths, mk_errs>>

\* os.mkdir(self): creates the directory, or fails because it is there, or
\* because its parent is not; on the latter Path.mkdir calls itself on the
\* parent when `parents` is set
MkOsMkdir(k) ==
    /\ mk_state[k] = "running"
    /\ MkTop(k).at = "os.mkdir"
    /\ LET top == MkTop(k)
           n == Len(mk_stack[k])
       IN IF MkExists(top.path, mk_dirs)
          THEN /\ mk_errs' = [mk_errs EXCEPT ![k] = Append(@, "EEXIST")]
               /\ UNCHANGED mk_dirs
               /\ IF ~top.exist_ok
                  THEN MkRaised(k)
                  ELSE /\ mk_stack' = [mk_stack EXCEPT ![k][n].at = "is_dir"]
                       /\ UNCHANGED mk_state
          ELSE IF ~MkExists(Parent(top.path), mk_dirs)
          THEN /\ mk_errs' = [mk_errs EXCEPT ![k] = Append(@, "ENOENT")]
               /\ UNCHANGED mk_dirs
               /\ IF ~top.parents \/ Parent(top.path) = top.path
                  THEN MkRaised(k)
                  ELSE /\ mk_stack' =
                            [mk_stack EXCEPT
                               ![k] = Append([@ EXCEPT ![n].at = "again"],
                                             Frame(Parent(top.path),
                                                   TRUE, TRUE))]
                       /\ UNCHANGED mk_state
          ELSE /\ mk_dirs' = mk_dirs \cup {top.path}
               /\ MkPopped(k)
               /\ UNCHANGED mk_errs
    /\ UNCHANGED <<mk_n_jobs, mk_paths>>

\* if not exist_ok or not self.is_dir(): raise
MkIsDir(k) ==
    /\ mk_state[k] = "running"
    /\ MkTop(k).at = "is_dir"
    /\ IF MkExists(MkTop(k).path, mk_dirs) THEN MkPopped(k) ELSE MkRaised(k)
    /\ UNCHANGED <<mk_dirs, mk_n_jobs, mk_paths, mk_errs>>

\* self.mkdir(mode, parents=False, exist_ok=exist_ok), once the parent is made
MkAgain(k) ==
    /\ mk_state[k] = "running"
    /\ MkTop(k).at = "again"
    /\ mk_stack' = [mk_stack EXCEPT
                      ![k][Len(mk_stack[k])] =
                          Frame(MkTop(k).path, FALSE, MkTop(k).exist_ok)]
    /\ UNCHANGED <<mk_dirs, mk_n_jobs, mk_paths, mk_state, mk_errs>>

NextMk ==
    \/ \E k \in DOMAIN mk_paths : MkStart(k) /\ UNCHANGED <<mvars, fvars, wvars>>
    \/ \E k \in DOMAIN mk_paths : MkOsMkdir(k) /\ UNCHANGED <<mvars, fvars, wvars>>
    \/ \E k \in DOMAIN mk_paths : MkIsDir(k) /\ UNCHANGED <<mvars, fvars, wvars>>
    \/ \E k \in DOMAIN mk_paths : MkAgain(k) /\ UNCHANGED <<mvars, fvars, wvars>>

SpecMk == InitMk /\ [][NextMk]_vars

\* ----------------------------------------------------------------- claims
RECURSIVE SumSeq(_)
SumSeq(q) == IF Len(q) = 0 THEN 0 ELSE q[1] + SumSeq(Tail(q))

Items == DOMAIN arr

\* the call of wrapped_mapper has ended (returned or raised)
CallEnded == pc = "done" /\ outcome.kind # "ValueError"

\* C1: a returned sequence has the length of the input and its i-th element
\* is fn of the i-th argument, whatever was retried and in whatever order
\* the workers finished.
C1_OrderPreserved ==
    outcome.kind = "returned" =>
        /\ Len(outcome.results) = Len(arr)
        /\ \A i \in Items : outcome.results[i] = fn(arr[i])

C1_Witness ==
    /\ outcome.kind = "returned"
    /\ Len(arr) = 3 /\ arr[1] # arr[2]
    /\ n_jobs = 2
    /\ fails[1] = 0 /\ fails[2] = 2 /\ fails[3] = 1

\* every invocation so far raised an error of a retried class
EveryCallClassified ==
    unc_round = 0 /\ \A i \in Items : done_round[i] = 0 /\ fails[i] = calls[i]

\* C2: when every invocation of fn raises a classified error, a non-empty
\* batch of n items ends in JobsFailed after exactly count * n invocations,
\* with one failed job per item.
C2_BoundedRetries ==
    (CallEnded /\ Len(arr) > 0 /\ EveryCallClassified) =>
        /\ outcome.kind = "JobsFailed"
        /\ SumSeq(calls) = count * Len(arr)
        /\ Len(outcome.failed_jobs) = Len(arr)
        /\ \A i \in Items : outcome.failed_jobs[i].arg = arr[i]

C2_Witness ==
    /\ CallEnded /\ EveryCallClassified
    /\ Len(arr) = 2 /\ count = 3
    /\ outcome.kind = "JobsFailed"

NoCallClassified == \A i \in Items : fails[i] = 0

\* C3 as stated: when fn never raises a classified error, the call returns
\* after the first round with exactly one invocation per item.
C3_Original ==
    (CallEnded /\ NoCallClassified) =>
        /\ outcome.kind = "returned"
        /\ mapper_calls = 1
        /\ \A i \in Items : calls[i] = 1

\* C3 amended: when fn never raises a classified error the call ends in its
\* first round without sleeping and with at most one invocation per item;
\* when fn raises nothing at all it returns with exactly one invocation per
\* item, otherwise the non-classified error propagates.
C3_NoRetrySuccess ==
    (CallEnded /\ NoCallClassified) =>
        /\ mapper_calls = 1 /\ c = 1 /\ slept = <<>>
        /\ \A i \in Items : calls[i] <= 1
        /\ unc_round = 0 =>
              /\ outcome.kind = "returned"
              /\ \A i \in Items : calls[i] = 1
        /\ unc_round # 0 => outcome.kind = "propagated"

C3_Witness ==
    /\ CallEnded /\ NoCallClassified /\ unc_round = 0
    /\ Len(arr) = 3 /\ count = 3 /\ delay_secs = 1
    /\ outcome.kind = "returned"

\* C4: a round dispatches exactly the items not completed in an earlier
\* round, each with its original argument; an item that first succeeds in
\* round k has been invoked exactly k times and is never invoked again; when
\* exactly one item fails, only once, and count >= 2, the call returns the
\* complete result list after Len(arr) + 1 invocations.
C4_CompletedNeverRedispatched ==
    /\ pc = "map" =>
          /\ Range(input_idxs) =
                {i \in Items : done_round[i] = 0 \/ done_round[i] = c}
          /\ Len(input_idxs) = Cardinality(Range(input_idxs))
          /\ \A k \in DOMAIN futures :
                futures[k].kind \in {"pending", "running"} =>
                    futures[k].arg = arr[input_idxs[k]]
    /\ \A i \in Items :
          /\ calls[i] <= count
          /\ done_round[i] > 0 => calls[i] = done_round[i]
    /\ (/\ CallEnded /\ unc_round = 0 /\ count >= 2
        /\ SumSeq(fails) = 1) =>
          /\ outcome.kind = "returned"
          /\ Len(outcome.results) = Len(arr)
          /\ SumSeq(calls) = Len(arr) + 1

C4_Witness ==
    /\ CallEnded /\ unc_round = 0 /\ count >= 2
    /\ Len(arr) = 3
    /\ fails = <<0, 1, 0>>
    /\ done_round = <<1, 2, 1>>
    /\ calls = <<1, 2, 1>>

\* C5: an error of a class not in `on` leaves the call in the round where
\* it was raised, as itself: the item gets no failed job, no later round
\* runs and JobsFailed is not raised.
C5_UnclassifiedPropagates ==
    unc_round # 0 =>
        /\ c = unc_round
        /\ pc \in {"map", "done"}
        /\ \A i \in DOMAIN jobs :
              jobs[i].status = "failed" => jobs[i].exc.type \in on
        /\ pc = "done" =>
              /\ outcome.kind = "propagated"
              /\ outcome.exc.type \notin on
              /\ outcome.exc.round = unc_round

C5_Witness ==
    /\ pc = "done" /\ outcome.kind = "propagated"
    /\ unc_round = 2 /\ on # {}
    /\ \E i \in Items : fails[i] > 0

\* C6: failed_jobs of JobsFailed holds, in input order, one entry per item
\* that never succeeded and none for the others, each with the item's
\* argument and the error of its attempt in the last round.
C6_FailedJobsExact ==
    outcome.kind = "JobsFailed" =>
        LET fj == outcome.failed_jobs
            never == SelectSeq([i \in Items |-> i],
                               LAMBDA i : done_round[i] = 0)
        IN /\ Len(fj) = Len(never)
           /\ \A k \in DOMAIN fj :
                 /\ fj[k].status = "failed"
                 /\ fj[k].arg = arr[never[k]]
                 /\ fj[k].exc.type \in on
                 /\ fj[k].exc.round = count

C6_Witness ==
    /\ outcome.kind = "JobsFailed"
    /\ Len(arr) = 3 /\ count = 3
    /\ done_round = <<0, 2, 0>>
    /\ Len(outcome.failed_jobs) = 2

\* C7: the policy is rejected with ValueError exactly when count < 1 or
\* delay_secs < 0, and then no mapper and no fn has been invoked.
C7_PolicyValidated ==
    pc # "start" =>
        /\ outcome.kind = "ValueError" <=> (count < 1 \/ delay_secs < 0)
        /\ outcome.kind = "ValueError" =>
              /\ pc = "done"
              /\ mapper_calls = 0
              /\ \A i \in Items : calls[i] = 0

C7_Witness ==
    /\ outcome.kind = "ValueError"
    /\ count = 0 /\ delay_secs = 0

\* C8 as stated: on an empty batch the call returns the empty result and
\* the wrapped mapper is not invoked at all.
C8_Original ==
    (CallEnded /\ Len(arr) = 0) =>
        /\ outcome.kind = "returned" /\ outcome.results = <<>>
        /\ mapper_calls = 0
        /\ slept = <<>>

\* C8 amended: on an empty batch the call returns the empty result in its
\* first round, in which the wrapped mapper is invoked once with an empty
\* argument list; fn is never called and no sleep happens.
C8_EmptyBatch ==
    (CallEnded /\ Len(arr) = 0) =>
        /\ outcome.kind = "returned" /\ outcome.results = <<>>
        /\ mapper_calls = 1 /\ c = 1
        /\ futures = <<>>
        /\ slept = <<>>

C8_Witness ==
    /\ CallEnded /\ Len(arr) = 0 /\ count = 3 /\ delay_secs = 1
    /\ outcome.kind = "returned"

\* C9: with count = 1 exactly one round runs and nothing sleeps; no item
\* is invoked twice; unless a non-classified error aborts the round every
\* item is invoked once and JobsFailed is raised as soon as an item failed.
C9_SingleAttempt ==
    (CallEnded /\ count = 1) =>
        /\ mapper_calls = 1
        /\ slept = <<>>
        /\ \A i \in Items : calls[i] <= 1
        /\ unc_round = 0 =>
              /\ \A i \in Items : calls[i] = 1
              /\ SumSeq(fails) > 0 =>
                    /\ outcome.kind = "JobsFailed"
                    /\ Len(outcome.failed_jobs) = SumSeq(fails)
              /\ SumSeq(fails) = 0 => outcome.kind = "returned"
        /\ unc_round # 0 =>
              /\ outcome.kind = "propagated"
              /\ unc_round = 1

C9_Witness ==
    /\ CallEnded /\ count = 1
    /\ Len(arr) = 3
    /\ fails = <<0, 1, 1>>
    /\ outcome.kind = "JobsFailed"

FsItems == DOMAIN attempts

FsEnded == fs_pc = "done" /\ fs_outcome.kind # "ValueError"

\* C10 as stated: with the default retry_count an item that fails with
\* OSError on every attempt is attempted exactly 5 times.
C10_Original ==
    (FsEnded /\ retry_count = DefaultRetryCount /\ other_round = -1) =>
        \A x \in FsItems : x \notin succeeded => attempts[x] = 5

\* C10 amended: with the default retry_count = 5 an item that fails with
\* OSError on every attempt is attempted exactly 6 times (retry_count + 1),
\* with a sleep of 1 second between consecutive rounds (5 sleeps), and then
\* RuntimeError is raised.
C10_DefaultAttempts ==
    (FsEnded /\ retry_count = DefaultRetryCount /\ other_round = -1) =>
        \A x \in FsItems : x \notin succeeded =>
            /\ attempts[x] = DefaultRetryCount + 1
            /\ fs_outcome.kind = "RuntimeError"
            /\ fs_slept = [k \in 1 .. DefaultRetryCount |-> 1]

C10_Witness ==
    /\ FsEnded /\ retry_count = DefaultRetryCount /\ other_round = -1
    /\ op = "cp"
    /\ fs_outcome.kind = "RuntimeError"
    /\ Cardinality(FsItems) = 2 /\ Cardinality(succeeded) = 1
    /\ \E x \in FsItems : x \notin succeeded /\ attempts[x] = 6

\* the items of the list the current round was given
FsDispatched == Range(path_multi)

\* the items that raised OSError at loop index r
FailedAt(r) == {x \in FsItems : r \in fail_rounds[x]}

\* C11: in mkdir_p_parallel and cp_p_parallel every retry round dispatches
\* exactly the items that failed with OSError in the round just before it,
\* each of them once; an item that succeeded is never attempted again, and
\* the set of a round is contained in the set of the round before.
C11_RetryExactlyFailed ==
    /\ fs_pc = "map" =>
          /\ FsDispatched = IF fs_i = 0 THEN FsItems ELSE FailedAt(fs_i - 1)
          /\ Len(path_multi) = Cardinality(FsDispatched)
          /\ Len(fs_futures) = Len(path_multi)
          /\ \A k \in DOMAIN fs_futures :
                fs_futures[k].kind \in {"pending", "running"} =>
                   /\ fs_futures[k].arg = path_multi[k]
                   /\ fs_futures[k].arg \notin succeeded
    /\ \A x \in FsItems :
          /\ attempts[x] <= fs_i + 1
          /\ x \in succeeded => attempts[x] = Cardinality(fail_rounds[x]) + 1
          /\ x \notin succeeded =>
                attempts[x] - Cardinality(fail_rounds[x]) \in {0, 1}
          /\ \A r \in fail_rounds[x] : r > 0 => (r - 1) \in fail_rounds[x]

C11_Witness ==
    /\ fs_pc = "map" /\ fs_i = 1
    /\ Cardinality(FsItems) = 2
    /\ Cardinality(succeeded) = 1
    /\ Len(path_multi) = 1
    /\ attempts[path_multi[1]] = 2

\* how the message writes an item: the path, or the pair src -> dst
Rendered(o, x) == IF o = "mkdir" THEN x ELSE <<x[1], "->", x[2]>>

\* C12: when the attempts are exhausted the RuntimeError names every item
\* that failed in every round and no item that succeeded in some round; the
\* call returns normally exactly when every item succeeded in some round.
C12_AggregateError ==
    /\ fs_outcome.kind = "RuntimeError" =>
          /\ fs_pc = "done" /\ fs_i = retry_count
          /\ Range(fs_outcome.msg.named) =
                {Rendered(op, x) : x \in FsItems \ succeeded}
          /\ FsItems \ succeeded =
                {x \in FsItems : fail_rounds[x] = 0 .. retry_count}
          /\ FsItems \ succeeded # {}
    /\ FsEnded => (fs_outcome.kind = "returned" <=> FsItems \subseteq succeeded)

C12_Witness ==
    /\ fs_outcome.kind = "RuntimeError"
    /\ op = "cp" /\ retry_count = 1
    /\ Cardinality(FsItems) = 2
    /\ \E x \in FsItems : x \in succeeded /\ fail_rounds[x] = {0}
    /\ Len(fs_outcome.msg.named) = 1

\* C15: mkdir_p_parallel and cp_p_parallel called with retry_count <= 0
\* raise ValueError before any directory creation or copy is attempted and
\* leave the filesystem as it was; no other call raises that ValueError.
C15_RetryCountValidated ==
    /\ retry_count <= 0 =>
          /\ \A x \in FsItems : attempts[x] = 0
          /\ fs_futures = <<>>
          /\ disk = {}
          /\ fs_pc = "done" => fs_outcome.kind = "ValueError"
    /\ fs_outcome.kind = "ValueError" => retry_count <= 0

C15_Witness ==
    /\ fs_pc = "done" /\ fs_outcome.kind = "ValueError"
    /\ retry_count = 0
    /\ op = "mkdir"
    /\ Len(path_multi) = 2

\* the files below a directory of the output
FilesUnder(dir) ==
    {e \in disk : /\ e.kind = "file"
                  /\ Len(e.path) > Len(dir)
                  /\ SubSeq(e.path, 1, Len(dir)) = dir}

\* the directories at or below a directory of the output
DirsUnder(dir) ==
    {e \in disk : /\ e.kind = "dir"
                  /\ Len(e.path) >= Len(dir)
                  /\ SubSeq(e.path, 1, Len(dir)) = dir}

\* C13: if dst exists when diff or groupby starts, the workflow fails before
\* any work: nothing is enumerated, hashed or read, no directory is made, no
\* file is copied, and the filesystem stays as it was.
C13_DstExistsFailsFirst ==
    DirEntry(Dst) \in disk0 =>
        /\ log = <<>>
        /\ disk = disk0
        /\ fs_pc = "off" /\ fs_futures = <<>>
        /\ src1_img_paths = <<>> /\ src_img_paths = <<>>
        /\ wf_pc \in {"cli", "call", "done"}
        /\ wf_pc = "done" => wf_outcome.kind \in {"ValueError", "UsageError"}

C13_Witness ==
    /\ DirEntry(Dst) \in disk0
    /\ wf_pc = "done"
    /\ wf_outcome = [kind |-> "ValueError", why |-> "dst exists"]
    /\ threads = 2
    /\ Len(tree1) = 2

\* C14 as stated: a worker count below 1 makes diff and groupby raise before
\* any source is enumerated and before any filesystem I/O.
C14_Original ==
    threads < 1 =>
        /\ log = <<>>
        /\ src1_img_paths = <<>> /\ src_img_paths = <<>>
        /\ wf_pc \in {"cli", "call", "done"}

Digests(tree) == {cksum(tree[k]) : k \in DOMAIN tree}

\* the digests of the category in the run
CategoryOf(category) ==
    LET h1 == Range(src1_img_hashes)
        h2 == Range(src2_img_hashes)
    IN  IF category = "both" THEN hashes_in_both(h1, h2)
        ELSE IF category = "src1_only" THEN hashes_in_src1_only(h1, h2)
             ELSE hashes_in_src2_only(h1, h2)

Categories == {"both", "src1_only", "src2_only"}

\* C16: with H1 and H2 the digests of src1 and src2, diff takes both as the
\* intersection, src1_only as H1 minus H2 and src2_only as H2 minus H1; the
\* three are pairwise disjoint, every digest is in exactly one of them, and
\* after a successful run each category directory holds as many files as the
\* category has digests.
C16_Partition ==
    (wf = "diff" /\ cat # "none") =>
        LET H1 == Digests(tree1)
            H2 == Digests(tree2)
        IN  /\ CategoryOf("both") = H1 \cap H2
            /\ CategoryOf("src1_only") = H1 \ H2
            /\ CategoryOf("src2_only") = H2 \ H1
            /\ \A a, b \in Categories :
                  a # b => CategoryOf(a) \cap CategoryOf(b) = {}
            /\ \A h \in H1 \cup H2 :
                  Cardinality({a \in Categories : h \in CategoryOf(a)}) = 1
            /\ wf_outcome.kind = "returned" =>
                  \A a \in Categories :
                     Cardinality(FilesUnder(Dst \o <<a>>)) =
                        Cardinality(CategoryOf(a))

C16_Witness ==
    /\ wf = "diff" /\ wf_outcome.kind = "returned"
    /\ Cardinality(FilesUnder(Dst \o <<"both">>)) = 1
    /\ Cardinality(FilesUnder(Dst \o <<"src1_only">>)) = 1
    /\ Len(tree1) = 2 /\ Len(tree2) = 1

\* the last path, in the order of enumeration, whose file has the digest
LastWith(root, tree, h) ==
    LET k == CHOOSE j \in DOMAIN tree :
                /\ cksum(tree[j]) = h
                /\ \A n \in DOMAIN tree : cksum(tree[n]) = h => n <= j
    IN  root \o tree[k].rel

\* the output files that are copies of a file with the digest
CopiesOf(h) ==
    {e \in disk : e.kind = "file" /\ cksum(FileAt(e.from[1])) = h}

\* C17: when several paths of one source share a digest, diff keeps exactly
\* one path for the digest in that source, the last one in enumeration
\* order, and a successful run has written exactly one copy for the digest.
C17_LastPathKept ==
    (wf = "diff" /\ cat # "none") =>
        LET m1 == HashToPath(src1_img_paths, src1_img_hashes)
            m2 == HashToPath(src2_img_paths, src2_img_hashes)
        IN  /\ DOMAIN m1 = Digests(tree1)
            /\ DOMAIN m2 = Digests(tree2)
            /\ \A h \in DOMAIN m1 : m1[h] = LastWith(Src1, tree1, h)
            /\ \A h \in DOMAIN m2 : m2[h] = LastWith(Src2, tree2, h)
            /\ wf_outcome.kind = "returned" =>
                  \A h \in DOMAIN m1 \cup DOMAIN m2 :
                     /\ Cardinality(CopiesOf(h)) = 1
                     /\ \A e \in CopiesOf(h) :
                           e.from[1] = IF h \in DOMAIN m1
                                       THEN m1[h] ELSE m2[h]

C17_Witness ==
    /\ wf = "diff" /\ wf_outcome.kind = "returned"
    /\ Len(tree1) = 2
    /\ cksum(tree1[1]) = cksum(tree1[2])
    /\ \E e \in disk : e.kind = "file" /\ e.from[1] = Src1 \o tree1[2].rel

\* the hashes and timestamps a run without any concurrency computes
SeqHashes(root, tree) ==
    LET ps == Enumerate(root, tree)
    IN  [k \in DOMAIN ps |-> cksum(FileIn(root, tree, ps[k]))]

SeqTimestamps(root, tree) ==
    LET ps == Enumerate(root, tree)
    IN  [k \in DOMAIN ps |-> read_captured_timestamp(FileIn(root, tree, ps[k]))]

\* the dictionaries of diff(a, b) for the trees ta below a and tb below b
PlanOfDiff(category, a, ta, b, tb) ==
    DiffPlan(category, a, Enumerate(a, ta), SeqHashes(a, ta),
             b, Enumerate(b, tb), SeqHashes(b, tb))

\* the names a dictionary src -> dst leaves below dst
NamesOf(plan) ==
    {<<"file", plan[p]>> : p \in DOMAIN plan}
      \cup {<<"dir", q>> : q \in UNION {Prefixes(Parent(plan[p])) :
                                          p \in DOMAIN plan}}

\* the output tree of the inputs, whatever the worker count
ExpectedNames ==
    IF wf = "diff"
    THEN UNION {NamesOf(PlanOfDiff(a, Src1, tree1, Src2, tree2)) :
                  a \in Categories}
    ELSE NamesOf(src_img_path_to_dst_img_path(
                     Enumerate(Src, tree1), SeqTimestamps(Src, tree1), group))

\* C18: a successful run of diff or groupby leaves the same output tree
\* (directories and file names) for the same input with one worker and with
\* several, for every interleaving of the workers.
C18_ParallelEquivalence ==
    wf_outcome.kind = "returned" =>
        {<<e.kind, e.path>> : e \in disk} = ExpectedNames

C18_Witness ==
    /\ wf = "groupby" /\ wf_outcome.kind = "returned"
    /\ threads = 2
    /\ Len(tree1) = 2
    /\ Cardinality(DirsUnder(Dst)) = 3

\* the tree of a category, relative to the category directory
ActualCategory(category) ==
    LET top == Dst \o <<category>>
    IN  {<<"file", RelativeTo(e.path, top), e.from[1]>> :
           e \in FilesUnder(top)}
          \cup {<<"dir", RelativeTo(e.path, top), <<>>>> : e \in DirsUnder(top)}

PlannedCategory(category, plan) ==
    LET top == Dst \o <<category>>
    IN  {<<"file", RelativeTo(plan[p], top), p>> : p \in DOMAIN plan}
          \cup {<<"dir", RelativeTo(q, top), <<>>>> :
                  q \in {r \in UNION {Prefixes(Parent(plan[p])) :
                                        p \in DOMAIN plan} :
                           Len(r) >= Len(top)}}

\* C19: diff is symmetric in its sources: the src1_only tree of
\* diff(src1, src2) is the src2_only tree of diff(src2, src1), its src2_only
\* tree is the src1_only tree of diff(src2, src1), and both runs write the
\* same number of files below both.
C19_Mirrored ==
    (wf = "diff" /\ wf_outcome.kind = "returned") =>
        /\ ActualCategory("src1_only") =
              PlannedCategory("src2_only",
                  PlanOfDiff("src2_only", Src2, tree2, Src1, tree1))
        /\ ActualCategory("src2_only") =
              PlannedCategory("src1_only",
                  PlanOfDiff("src1_only", Src2, tree2, Src1, tree1))
        /\ Cardinality(FilesUnder(Dst \o <<"both">>)) =
              Cardinality(DOMAIN PlanOfDiff("both", Src2, tree2, Src1, tree1))

C19_Witness ==
    /\ wf = "diff" /\ wf_outcome.kind = "returned"
    /\ Len(tree1) = 1 /\ Len(tree2) = 2
    /\ Cardinality(FilesUnder(Dst \o <<"both">>)) = 1
    /\ Cardinality(FilesUnder(Dst \o <<"src2_only">>)) = 1

\* YYYY, YYYYMM, YYYYMMDD as the decimal digits of one number
Rendering(timestamp, granularity) ==
    IF granularity = "year"
    THEN ToString(timestamp.year)
    ELSE IF granularity = "month"
         THEN ToString(timestamp.year * 100 + timestamp.month)
         ELSE ToString(timestamp.year * 10000 + timestamp.month * 100
                         + timestamp.day)

LabelOf(f) ==
    IF read_captured_timestamp(f).is_none
    THEN "UNKNOWN"
    ELSE Rendering(read_captured_timestamp(f), group)

C21_OneCopyPerImage ==
    (wf = "groupby" /\ cat = "all") =>
        LET plan == CopyPlan("all")
            images == {Src \o tree1[k].rel : k \in DOMAIN tree1}
        IN  /\ DOMAIN plan = images
            /\ \A k \in DOMAIN tree1 :
                  plan[Src \o tree1[k].rel] =
                     <<"dst", LabelOf(tree1[k]), Name(tree1[k].rel)>>
            /\ wf_pc = "cp" =>
                  /\ DOMAIN attempts = {<<p, plan[p]>> : p \in images}
                  /\ Cardinality(DOMAIN attempts) = Len(tree1)
                  /\ fs_pc \in {"map", "sleep", "done"} =>
                        Len(fs_futures) + Cardinality(succeeded) >= Len(tree1)
            /\ (/\ wf_outcome.kind = "returned"
                /\ \A j, k \in DOMAIN tree1 :
                      j # k => Name(tree1[j].rel) # Name(tree1[k].rel)) =>
                  Cardinality(FilesUnder(Dst)) = Len(tree1)

C21_Witness ==
    /\ wf = "groupby" /\ wf_outcome.kind = "returned"
    /\ Len(tree1) = 2
    /\ Name(tree1[1].rel) # Name(tree1[2].rel)
    /\ LabelOf(tree1[1]) = LabelOf(tree1[2])
    /\ Cardinality(FilesUnder(Dst)) = 2

\* C23: hashing a path that cannot be read gives the empty string for that
\* path: the batch of hashes does not raise, every other path gets its
\* digest, and every path, readable or not, is hashed exactly once.
C23_UnreadableIsSentinel ==
    wf = "diff" =>
        /\ (op = "cksum" /\ fs_pc = "plain") =>
              /\ \A k \in DOMAIN fs_futures :
                    fs_futures[k].kind = "value" =>
                       LET f == FileAt(path_multi[k])
                       IN  /\ ~f.readable => fs_futures[k].value = <<>>
                           /\ f.readable =>
                                 fs_futures[k].value = <<"digest", f.data>>
              /\ \A x \in DOMAIN attempts : attempts[x] <= 1
              /\ PlainAllCollected => \A x \in DOMAIN attempts : attempts[x] = 1
              /\ wf_outcome.kind = "none"
        /\ cat # "none" =>
              /\ Len(src1_img_hashes) = Len(tree1)
              /\ Len(src2_img_hashes) = Len(tree2)
        /\ wf_outcome.kind \in {"RuntimeError", "propagated", "AssertionError"}
              => wf_outcome.why \in {"mkdir", "cp"}

C23_Witness ==
    /\ wf = "diff" /\ op = "cksum" /\ fs_pc = "plain"
    /\ PlainAllCollected
    /\ Len(fs_futures) = 2
    /\ fs_futures[1].value = <<>>
    /\ fs_futures[2].value # <<>>

\* C24 as stated: diff does not match a path whose digest is the empty
\* string against other paths, so no file that cannot be read is placed in
\* the category both and two such files are never taken for the same content.
C24_Original ==
    (wf = "diff" /\ cat # "none") =>
        /\ EmptyDigest \notin CategoryOf("both")
        /\ \A p \in DOMAIN CopyPlan("both") : FileAt(p).readable

\* C29: in both workflows the copies of a category (or of the groupby run)
\* are dispatched only after mkdir_p_parallel for it has returned, and the
\* parent of every copy destination is in the set that call was given.
C29_MkdirBeforeCopy ==
    /\ wf_pc = "mkdir" =>
          /\ op = "mkdir"
          /\ \A p \in DOMAIN CopyPlan(cat) :
                Parent(CopyPlan(cat)[p]) \in DOMAIN attempts
          /\ log[Len(log)] = "mkdir " \o cat
    /\ op = "cp" =>
          /\ wf_pc \in {"cp", "done"}
          /\ Len(log) >= 2
          /\ log[Len(log)] = "cp " \o cat
          /\ log[Len(log) - 1] = "mkdir " \o cat
          /\ \A x \in DOMAIN attempts : DirEntry(Parent(x[2])) \in disk
    /\ \A e \in disk : e.kind = "file" => DirEntry(Parent(e.path)) \in disk

C29_Witness ==
    /\ wf = "diff" /\ wf_pc = "cp" /\ fs_pc = "map"
    /\ cat = "src1_only"
    /\ Len(fs_futures) = 2
    /\ fs_futures[1].kind = "running" /\ fs_futures[2].kind = "running"

DiffPhases ==
    <<"enumerate src1", "cksum", "enumerate src2", "cksum",
      "mkdir both", "cp both", "mkdir src1_only", "cp src1_only",
      "mkdir src2_only", "cp src2_only">>

\* C30: diff passes through its phases in the stated order, each at most
\* once: the test of dst, src1 enumerated and hashed, src2 enumerated and
\* hashed, the partition, then both, src1_only and src2_only materialized;
\* it returns only after all three materializations have returned.
C30_PhaseOrder ==
    wf = "diff" =>
        /\ Len(log) <= Len(DiffPhases)
        /\ log = SubSeq(DiffPhases, 1, Len(log))
        /\ wf_pc \in {"cli", "call", "enumerate"} => log = <<>>
        /\ cat = "none" <=> Len(log) <= 4
        /\ wf_pc = "hash1" => Len(log) = 2
        /\ wf_pc = "hash2" => Len(log) = 4
        /\ wf_pc \in {"mkdir", "cp"} => Len(log) >= 5
        /\ wf_outcome.kind = "returned" =>
              /\ log = DiffPhases
              /\ fs_outcome.kind = "returned"

C30_Witness ==
    /\ wf = "diff" /\ wf_outcome.kind = "returned"
    /\ log = DiffPhases
    /\ Len(tree1) = 1 /\ Len(tree2) = 2
    /\ FilesUnder(Dst \o <<"both">>) = {}
    /\ Cardinality(FilesUnder(Dst)) = 2

\* C25: the call sleeps delay_secs exactly between two consecutive rounds:
\* only after a round that left a failed job while c < count, never before
\* the first round, never after a round without failed job and never after
\* the last round; a call that ran r rounds has slept r - 1 times.
C25_SleepBetweenRounds ==
    /\ \A k \in DOMAIN slept : slept[k] = delay_secs
    /\ c = 0 => slept = <<>>
    /\ pc = "sleep" =>
          /\ Len(failed_jobs) > 0
          /\ c < count
          /\ Len(slept) = c - 1
    /\ pc = "map" => Len(slept) = c - 1
    /\ pc = "loop" => Len(slept) = (IF c <= count THEN c ELSE count) - 1
    /\ CallEnded =>
          /\ mapper_calls >= 1
          /\ Len(slept) = mapper_calls - 1
          /\ outcome.kind = "returned" => Len(slept) = c - 1
          /\ outcome.kind = "JobsFailed" => Len(slept) = count - 1

C25_Witness ==
    /\ outcome.kind = "JobsFailed"
    /\ count = 3 /\ mapper_calls = 3
    /\ slept = <<1, 1>>

\* C26: an invocation of fn that starts belongs to the current round c, and
\* at that moment every item has either completed in an earlier round or
\* failed in each of the rounds before c; and when the mapper returns (the
\* round is decided: return, sleep and retry, or go on to raise) every item
\* dispatched in the round has been invoked in it and has completed or
\* failed, none is waiting or running.
C26_Barrier ==
    [][/\ \A i \in Items :
             calls'[i] > calls[i] =>
                /\ calls'[i] = c
                /\ \A j \in Items :
                      \/ done_round[j] \in 1 .. (c - 1)
                      \/ fails[j] >= c - 1
       /\ (pc = "map" /\ pc' # "map" /\ outcome'.kind # "propagated") =>
             /\ \A k \in DOMAIN input_idxs :
                   /\ calls[input_idxs[k]] = c
                   /\ \/ done_round[input_idxs[k]] = c
                      \/ fails[input_idxs[k]] = c
             /\ \A j \in Items :
                   calls[j] = fails[j] + (IF done_round[j] # 0 THEN 1 ELSE 0)
      ]_vars

C26_Witness ==
    /\ pc = "map" /\ c = 2 /\ n_jobs = 2
    /\ Cardinality(Running) = 2
    /\ \E i \in Items : done_round[i] = 1

\* C27: once an invocation raised an error of a class not in `on`, the call
\* never returns results and never raises JobsFailed, no further round is
\* started and no further sleep is taken; what the call ends with carries
\* no result sequence, whatever had completed in this or an earlier round.
C27_AbortReturnsNothing ==
    unc_round # 0 =>
        /\ outcome.kind \in {"none", "propagated"}
        /\ mapper_calls = unc_round
        /\ Len(slept) = unc_round - 1
        /\ \A i \in Items : calls[i] <= unc_round
        /\ pc = "done" => DOMAIN outcome = {"kind", "exc"}

C27_Witness ==
    /\ pc = "done" /\ outcome.kind = "propagated"
    /\ unc_round = 2
    /\ \E i \in Items : done_round[i] = 1
    /\ \E j \in Items : done_round[j] = 2

\* C28: when every invocation of fn terminates, every call ends; it runs at
\* most count rounds, and it ends by returning one result per input, by
\* raising JobsFailed or by propagating an error of a class not in `on`.
C28_Terminates ==
    /\ <>(pc = "done")
    /\ [](/\ mapper_calls <= count \/ outcome.kind = "ValueError"
          /\ c <= count + 1
          /\ CallEnded =>
                /\ outcome.kind \in {"returned", "JobsFailed", "propagated"}
                /\ outcome.kind = "returned" =>
                      Len(outcome.results) = Len(arr)
                /\ outcome.kind = "JobsFailed" =>
                      /\ Len(outcome.failed_jobs) > 0
                      /\ mapper_calls = count
                /\ outcome.kind = "propagated" => outcome.exc.type \notin on)

C28_Witness ==
    /\ outcome.kind = "JobsFailed"
    /\ count = MaxCount /\ mapper_calls = MaxCount
    /\ Len(arr) = MaxLen

\* C22: whatever the interleaving of the requests of one round, for the
\* same path or for paths with a common ancestor that is not there yet, no
\* call of mkdir_p raises, and a request that has returned finds its
\* directory and all its ancestors in place.
C22_MkdirIdempotent ==
    /\ \A k \in DOMAIN mk_state :
          /\ mk_state[k] # "raised"
          /\ mk_state[k] = "returned" =>
                /\ mk_stack[k] = <<>>
                /\ Prefixes(mk_paths[k]) \subseteq mk_dirs
    /\ \A p \in mk_dirs : Prefixes(p) \subseteq mk_dirs

C22_Witness ==
    /\ Len(mk_paths) = 2
    /\ mk_paths[1] = mk_paths[2]
    /\ mk_state = <<"returned", "returned">>
    /\ mk_errs = <<<<"ENOENT", "EEXIST">>, <<"ENOENT", "EEXIST">>>>

\* C34: in a filesystem batch an item is attempted again only after an
\* OSError of its own; an error of another class leaves the batch in the
\* round where it was raised, as itself, with no further round and no
\* further sleep, and a batch that ends with the aggregate RuntimeError has
\* seen no such error.
C34_OnlyOSErrorRetried ==
    /\ \A x \in FsItems : attempts[x] <= Cardinality(fail_rounds[x]) + 1
    /\ other_round # -1 =>
          /\ fs_i = other_round
          /\ Len(fs_slept) = other_round
          /\ fs_pc \in {"map", "done"}
          /\ \A x \in FsItems : attempts[x] <= other_round + 1
          /\ fs_pc = "done" =>
                /\ fs_outcome.kind = "propagated"
                /\ fs_outcome.exc.type \notin {"none", "OSError"}
                /\ fs_outcome.exc.round = other_round
    /\ fs_outcome.kind = "RuntimeError" => other_round = -1

C34_Witness ==
    /\ fs_pc = "done" /\ fs_outcome.kind = "propagated"
    /\ other_round = 1
    /\ \E x \in FsItems : fail_rounds[x] = {0} /\ attempts[x] = 2

\* C35: the assert of wrapped_mapper never fails: after every round each
\* job of the batch is done or failed, none is left new, and a call that
\* returns has one result per input.
C35_AssertNeverFails ==
    /\ outcome.kind # "AssertionError"
    /\ (mapper_calls >= 1 /\ pc \in {"sleep", "loop"}) =>
          \A i \in DOMAIN jobs : jobs[i].status \in {"done", "failed"}
    /\ outcome.kind = "returned" =>
          /\ \A i \in DOMAIN jobs : jobs[i].status = "done"
          /\ DOMAIN outcome.results = DOMAIN arr
    /\ outcome.kind = "JobsFailed" =>
          \A i \in DOMAIN jobs : jobs[i].status \in {"done", "failed"}

C35_Witness ==
    /\ outcome.kind = "returned"
    /\ Len(arr) = MaxLen
    /\ mapper_calls = 2
    /\ \E i \in Items : done_round[i] = 1

EarlierCats(category) ==
    IF category = "both" THEN {}
    ELSE IF category = "src1_only" THEN {"both"} ELSE {"both", "src1_only"}

LaterCats(category) == Categories \ (EarlierCats(category) \cup {category})

PlanDsts(plan) == {plan[p] : p \in DOMAIN plan}

C32_SameNameCollides ==
    (wf = "groupby" /\ cat = "all") =>
        LET plan == CopyPlan("all")
        IN  /\ \A p, q \in Range(src_img_paths) :
                  (/\ Name(p) = Name(q)
                   /\ LabelOf(FileAt(p)) = LabelOf(FileAt(q)))
                     => plan[p] = plan[q]
            /\ op = "cp" =>
                  \A p \in Range(src_img_paths) :
                     <<p, plan[p]>> \in DOMAIN attempts
            /\ \A d \in PlanDsts(plan) :
                  Cardinality({e \in disk : e.path = d}) <= 1
            /\ wf_outcome.kind = "returned" =>
                  Cardinality(FilesUnder(Dst)) = Cardinality(PlanDsts(plan))

C32_Witness ==
    /\ wf = "groupby" /\ op = "cp" /\ fs_pc = "map"
    /\ \E j, k \in DOMAIN fs_futures :
          /\ fs_futures[j].kind = "running"
          /\ fs_futures[k].kind = "running"
          /\ fs_futures[j].arg[1] # fs_futures[k].arg[1]
          /\ fs_futures[j].arg[2] = fs_futures[k].arg[2]

\* C33: in diff the destinations of a category are pairwise distinct, the
\* destinations of two categories are disjoint, and the items of a copy
\* batch have pairwise distinct destinations.
C33_DistinctDestinations ==
    (wf = "diff" /\ cat \in Categories) =>
        /\ \A a \in Categories :
              \A p, q \in DOMAIN CopyPlan(a) :
                 p # q => CopyPlan(a)[p] # CopyPlan(a)[q]
        /\ \A a, b \in Categories :
              a # b => PlanDsts(CopyPlan(a)) \cap PlanDsts(CopyPlan(b)) = {}
        /\ op = "cp" =>
              \A x, y \in DOMAIN attempts : x # y => x[2] # y[2]

C33_Witness ==
    /\ wf = "diff" /\ op = "cp" /\ fs_pc = "map"
    /\ cat = "src2_only"
    /\ Cardinality(FsRunning) = 2
    /\ FilesUnder(Dst \o <<"src1_only">>) # {}

\* C36: after a diff that returned, every image of src1 has its content in
\* a file below dst/both or dst/src1_only, and every image of src2 has its
\* content in a file below dst/both or dst/src2_only; a copy has the
\* content, and so the digest, of the file it was copied from.
C36_Original ==
    (wf = "diff" /\ wf_outcome.kind = "returned") =>
        /\ \A p \in Range(src1_img_paths) :
              \E e \in FilesUnder(Dst \o <<"both">>)
                         \cup FilesUnder(Dst \o <<"src1_only">>) :
                 FileAt(e.from[1]).data = FileAt(p).data
        /\ \A p \in Range(src2_img_paths) :
              \E e \in FilesUnder(Dst \o <<"both">>)
                         \cup FilesUnder(Dst \o <<"src2_only">>) :
                 FileAt(e.from[1]).data = FileAt(p).data

====
